---- MODULE Spec2Model ----
(***************************************************************************)
(* SimpleDoc: naming rules, doc classifier, migration planner and plan     *)
(* applier.  File names, paths and file contents are sequences of          *)
(* one-character strings, so that the regular expressions and string       *)
(* operations of the source are computed as the source computes them.      *)
(***************************************************************************)
EXTENDS Integers, Sequences, FiniteSets, TLC

\* ------------------------------------------------------------------------
\* Characters and generic string helpers
\* ------------------------------------------------------------------------

\* the value the source writes as null
NULL == <<"NULL">>

LowerLetters == <<"a", "b", "c", "d", "e", "f", "g", "h", "i", "j", "k", "l", "m", "n", "o", "p", "q", "r", "s", "t", "u", "v", "w", "x", "y", "z">>

UpperLetters == <<"A", "B", "C", "D", "E", "F", "G", "H", "I", "J", "K", "L", "M", "N", "O", "P", "Q", "R", "S", "T", "U", "V", "W", "X", "Y", "Z">>

DigitChars == {"0", "1", "2", "3", "4", "5", "6", "7", "8", "9"}

LowerSet == {LowerLetters[i] : i \in 1..26}

UpperSet == {UpperLetters[i] : i \in 1..26}

\* \p{L} and \p{N} restricted to ASCII
LetterSet == LowerSet \cup UpperSet

\* \s
WhiteSpace == {" ", "\t", "\n", "\r"}

\* characters in code-unit order, used to order paths as git ls-files does
CharOrder == <<"\t", "\n", "\r", " ", "!", "\"", "#", "(", ")", "*", "+", ",", "-", ".", "/", "0", "1", "2", "3", "4", "5", "6", "7", "8", "9", ":", ";", "<", "=", ">", "?", "@", "A", "B", "C", "D", "E", "F", "G", "H", "I", "J", "K", "L", "M", "N", "O", "P", "Q", "R", "S", "T", "U", "V", "W", "X", "Y", "Z", "[", "]", "_", "a", "b", "c", "d", "e", "f", "g", "h", "i", "j", "k", "l", "m", "n", "o", "p", "q", "r", "s", "t", "u", "v", "w", "x", "y", "z", "{", "}", "~">>

CharSet == {CharOrder[i] : i \in 1..Len(CharOrder)}

OrdOf == [c \in CharSet |-> CHOOSE i \in 1..Len(CharOrder) : CharOrder[i] = c]

LowerOf == [c \in CharSet |->
  IF c \in UpperSet THEN LowerLetters[CHOOSE i \in 1..26 : UpperLetters[i] = c] ELSE c]

UpperOf == [c \in CharSet |->
  IF c \in LowerSet THEN UpperLetters[CHOOSE i \in 1..26 : LowerLetters[i] = c] ELSE c]

\* applies the character map f to every character of s it is defined on
RECURSIVE MapCharsFrom(_, _, _)
MapCharsFrom(s, f, i) ==
  IF i > Len(s) THEN <<>>
  ELSE <<IF s[i] \in DOMAIN f THEN f[s[i]] ELSE s[i]>> \o MapCharsFrom(s, f, i + 1)

\* String.prototype.toLocaleLowerCase("en-US") / toLowerCase
toLowerCase(s) == MapCharsFrom(s, LowerOf, 1)

\* String.prototype.toLocaleUpperCase("en-US")
toUpperCase(s) == MapCharsFrom(s, UpperOf, 1)

startsWith(s, p) == Len(s) >= Len(p) /\ SubSeq(s, 1, Len(p)) = p

endsWith(s, p) == Len(s) >= Len(p) /\ SubSeq(s, Len(s) - Len(p) + 1, Len(s)) = p

\* String.prototype.slice(k) with a 1-based first index
sliceFrom(s, k) == SubSeq(s, k, Len(s))

\* String.prototype.lastIndexOf(c), 1-based, 0 when absent
lastIndexOf(s, c) ==
  IF \E i \in 1..Len(s) : s[i] = c
  THEN CHOOSE i \in 1..Len(s) : s[i] = c /\ \A j \in (i + 1)..Len(s) : s[j] # c
  ELSE 0

\* String.prototype.indexOf(pat, from), 1-based, 0 when absent
indexOf(s, pat, from) ==
  LET hits == {i \in from..(Len(s) - Len(pat) + 1) : SubSeq(s, i, i + Len(pat) - 1) = pat}
  IN IF hits = {} THEN 0 ELSE CHOOSE i \in hits : \A j \in hits : i <= j

\* String.prototype.trim()
trim(s) ==
  LET keep == {i \in 1..Len(s) : s[i] \notin WhiteSpace}
  IN IF keep = {} THEN <<>>
     ELSE SubSeq(s, CHOOSE i \in keep : \A j \in keep : i <= j,
                    CHOOSE i \in keep : \A j \in keep : i >= j)

\* s.replace(/[cls]+/g, rep): every maximal run of characters of cls becomes rep
RECURSIVE ReplaceRunsFrom(_, _, _, _)
ReplaceRunsFrom(s, cls, rep, i) ==
  IF i > Len(s) THEN <<>>
  ELSE (IF s[i] \in cls
        THEN (IF i > 1 /\ s[i - 1] \in cls THEN <<>> ELSE rep)
        ELSE <<s[i]>>) \o ReplaceRunsFrom(s, cls, rep, i + 1)

replaceRuns(s, cls, rep) == ReplaceRunsFrom(s, cls, rep, 1)

\* s.replace(/[^keep]+/g, "")
RECURSIVE KeepOnlyFrom(_, _, _)
KeepOnlyFrom(s, keep, i) ==
  IF i > Len(s) THEN <<>>
  ELSE (IF s[i] \in keep THEN <<s[i]>> ELSE <<>>) \o KeepOnlyFrom(s, keep, i + 1)

keepOnly(s, keep) == KeepOnlyFrom(s, keep, 1)

\* s.replace(/^-|-$/g, ""): at most one leading and one trailing dash go
stripOneDashEachEnd(s) ==
  LET a == IF Len(s) >= 1 /\ s[1] = "-" THEN sliceFrom(s, 2) ELSE s
  IN IF Len(a) >= 1 /\ a[Len(a)] = "-" THEN SubSeq(a, 1, Len(a) - 1) ELSE a

\* s.replace(/^_+|_+$/g, ""): all leading and all trailing underscores go
stripUnderscoresEachEnd(s) ==
  LET keep == {i \in 1..Len(s) : s[i] # "_"}
  IN IF keep = {} THEN <<>>
     ELSE SubSeq(s, CHOOSE i \in keep : \A j \in keep : i <= j,
                    CHOOSE i \in keep : \A j \in keep : i >= j)

\* /^\d{4}-\d{2}-\d{2}/ matches at the start of s
startsWithDate(s) ==
  /\ Len(s) >= 10
  /\ \A i \in {1, 2, 3, 4, 6, 7, 9, 10} : s[i] \in DigitChars
  /\ s[5] = "-"
  /\ s[8] = "-"

\* ------------------------------------------------------------------------
\* Naming rules (naming.ts)
\* ------------------------------------------------------------------------

\* MARKDOWN_EXT_RE = /\.(md|mdx)$/i
isMarkdownFile(filePath) ==
  LET l == toLowerCase(filePath)
  IN endsWith(l, <<".", "m", "d">>) \/ endsWith(l, <<".", "m", "d", "x">>)

splitMarkdownBaseName(baseName) ==
  LET dot == lastIndexOf(baseName, ".")
  IN [stem |-> IF dot = 0 THEN baseName ELSE SubSeq(baseName, 1, dot - 1),
      ext  |-> IF dot = 0 THEN <<>> ELSE toLowerCase(sliceFrom(baseName, dot))]

\* the separators [-_\s] after a date token
DateSeparators == {"-", "_"} \cup WhiteSpace

extractDatePrefix(baseName) ==
  LET stem == splitMarkdownBaseName(baseName).stem
  IN IF startsWithDate(stem) /\ (Len(stem) = 10 \/ stem[11] \in DateSeparators)
     THEN SubSeq(stem, 1, 10)
     ELSE NULL

isLowercaseDocBaseName(baseName) ==
  LET stem == splitMarkdownBaseName(baseName).stem
  IN (\E i \in 1..Len(stem) : stem[i] \in LowerSet)
     /\ ~(\E i \in 1..Len(stem) : stem[i] \in UpperSet)

isAllCapsDocBaseName(baseName) ==
  LET stem == splitMarkdownBaseName(baseName).stem
  IN (\E i \in 1..Len(stem) : stem[i] \in UpperSet)
     /\ ~(\E i \in 1..Len(stem) : stem[i] \in LowerSet)

CANONICAL_CAPITALIZED_STEMS ==
  { <<"r", "e", "a", "d", "m", "e">>, <<"a", "g", "e", "n", "t", "s">>, <<"i", "n", "s", "t", "a", "l", "l">>, <<"i", "d", "e", "a", "s">>, <<"t", "o", "d", "o">>, <<"p", "r", "i", "n", "c", "i", "p", "l", "e", "s">>, <<"r", "e", "l", "e", "v", "a", "n", "t">>,
    <<"r", "e", "v", "i", "e", "w", "_", "p", "r", "o", "m", "p", "t">>, <<"j", "s", "e", "n", "d">>, <<"c", "o", "n", "t", "r", "i", "b", "u", "t", "i", "n", "g">>, <<"c", "o", "d", "e", "_", "o", "f", "_", "c", "o", "n", "d", "u", "c", "t">>, <<"s", "e", "c", "u", "r", "i", "t", "y">>,
    <<"s", "u", "p", "p", "o", "r", "t">>, <<"c", "h", "a", "n", "g", "e", "l", "o", "g">>, <<"h", "i", "s", "t", "o", "r", "y">>, <<"n", "e", "w", "s">>, <<"n", "o", "t", "i", "c", "e">>, <<"a", "u", "t", "h", "o", "r", "s">>,
    <<"c", "o", "n", "t", "r", "i", "b", "u", "t", "o", "r", "s">>, <<"m", "a", "i", "n", "t", "a", "i", "n", "e", "r", "s">>, <<"g", "o", "v", "e", "r", "n", "a", "n", "c", "e">>, <<"l", "i", "c", "e", "n", "s", "e">>, <<"l", "i", "c", "e", "n", "s", "e", "s">>,
    <<"c", "o", "p", "y", "i", "n", "g">>, <<"c", "o", "p", "y", "r", "i", "g", "h", "t">>, <<"p", "a", "t", "e", "n", "t", "s">>, <<"t", "h", "i", "r", "d", "_", "p", "a", "r", "t", "y", "_", "n", "o", "t", "i", "c", "e", "s">>, <<"f", "a", "q">>, <<"r", "o", "a", "d", "m", "a", "p">> }

normalizeCanonicalStem(stem) ==
  stripUnderscoresEachEnd(
    replaceRuns(
      replaceRuns(toLowerCase(trim(stem)), WhiteSpace \cup {"-"}, <<"_">>),
      {"_"}, <<"_">>))

normalizeLowercaseStem(stem) ==
  stripOneDashEachEnd(
    replaceRuns(
      keepOnly(
        replaceRuns(toLowerCase(trim(stem)), WhiteSpace \cup {"_"}, <<"-">>),
        LetterSet \cup DigitChars \cup {"-"}),
      {"-"}, <<"-">>))

normalizeCapitalizedStem(stem) ==
  toUpperCase(
    stripUnderscoresEachEnd(
      keepOnly(
        replaceRuns(
          replaceRuns(toLowerCase(trim(stem)), WhiteSpace \cup {"-"}, <<"_">>),
          {"_"}, <<"_">>),
        LetterSet \cup DigitChars \cup {"_"})))

\* /^rfc[-_ ]?\d+/i
matchesRfc(stem) ==
  LET l == toLowerCase(stem)
  IN /\ startsWith(l, <<"r", "f", "c">>)
     /\ \/ (Len(l) >= 4 /\ l[4] \in DigitChars)
        \/ (Len(l) >= 5 /\ l[4] \in {"-", "_", " "} /\ l[5] \in DigitChars)

\* a variant for which no name is canonical
getCanonicalBaseName_None(baseName) == NULL

getCanonicalBaseName(baseName) ==
  LET p == splitMarkdownBaseName(baseName)
  IN IF ~isMarkdownFile(baseName) THEN NULL
     ELSE IF normalizeCanonicalStem(p.stem) \in CANONICAL_CAPITALIZED_STEMS
       THEN normalizeCapitalizedStem(p.stem) \o p.ext
     ELSE IF matchesRfc(p.stem)
       THEN normalizeCapitalizedStem(p.stem) \o p.ext
     ELSE NULL

\* the null result of parseDatePrefixedStem
NoDateParts == [matched |-> FALSE, date |-> <<>>, rest |-> <<>>]

\* /^(\d{4}-\d{2}-\d{2})(?:[-_\s]+(.*))?$/ ; "." matches no line terminator
parseDatePrefixedStem(stem) ==
  IF ~startsWithDate(stem) THEN NoDateParts
  ELSE IF Len(stem) = 10 THEN [matched |-> TRUE, date |-> SubSeq(stem, 1, 10), rest |-> <<>>]
  ELSE IF stem[11] \notin DateSeparators THEN NoDateParts
  ELSE LET after == {i \in 11..Len(stem) : stem[i] \notin DateSeparators}
           first == IF after = {} THEN Len(stem) + 1
                    ELSE CHOOSE i \in after : \A j \in after : i <= j
           tail  == sliceFrom(stem, first)
       IN IF \E i \in 1..Len(tail) : tail[i] \in {"\n", "\r"} THEN NoDateParts
          ELSE [matched |-> TRUE, date |-> SubSeq(stem, 1, 10), rest |-> trim(tail)]

\* a variant that re-cases the whole stem, date token included
normalizeBaseName_WholeStem(baseName, mode) ==
  LET p == splitMarkdownBaseName(baseName)
  IN (IF mode = "capitalized"
      THEN normalizeCapitalizedStem(p.stem)
      ELSE normalizeLowercaseStem(p.stem)) \o p.ext

normalizeBaseName(baseName, mode) ==
  LET p == splitMarkdownBaseName(baseName)
      dateParts == parseDatePrefixedStem(p.stem)
  IN IF dateParts.matched
     THEN LET fallback == IF mode = "capitalized" THEN <<"U", "N", "T", "I", "T", "L", "E", "D">> ELSE <<"u", "n", "t", "i", "t", "l", "e", "d">>
              rest == IF dateParts.rest # <<>> THEN dateParts.rest ELSE fallback
              restNormalized == IF mode = "capitalized"
                                THEN normalizeCapitalizedStem(rest)
                                ELSE normalizeLowercaseStem(rest)
          IN dateParts.date \o <<"-">>
             \o (IF restNormalized # <<>> THEN restNormalized ELSE fallback)
             \o p.ext
     ELSE (IF mode = "capitalized"
           THEN normalizeCapitalizedStem(p.stem)
           ELSE normalizeLowercaseStem(p.stem)) \o p.ext

applyRenameCase(baseName, mode) == normalizeBaseName(baseName, mode)

\* ------------------------------------------------------------------------
\* Paths (node:path posix)
\* ------------------------------------------------------------------------

\* path.posix.basename
basename(p) == sliceFrom(p, lastIndexOf(p, "/") + 1)

\* path.posix.dirname of a relative path without a trailing slash
dirname(p) ==
  LET slash == lastIndexOf(p, "/")
  IN IF slash = 0 THEN <<".">> ELSE SubSeq(p, 1, slash - 1)

\* path.posix.join(dir, base) for a normalized dir and a plain base name
posixJoin(dir, base) ==
  IF dir = <<>> \/ dir = <<".">> THEN base ELSE dir \o <<"/">> \o base

parsePathParts(relPath) ==
  LET d == dirname(relPath)
      base == basename(relPath)
      dot == lastIndexOf(base, ".")
  IN [dir  |-> IF d = <<".">> THEN <<>> ELSE d,
      base |-> base,
      name |-> IF dot = 0 THEN base ELSE SubSeq(base, 1, dot - 1),
      ext  |-> IF dot = 0 THEN <<>> ELSE sliceFrom(base, dot)]

\* the order of code units, as git ls-files sorts its output
PathLess(a, b) ==
  \E k \in 1..(Len(a) + 1) :
    /\ k <= Len(b)
    /\ \A i \in 1..(k - 1) : a[i] = b[i]
    /\ (k = Len(a) + 1 \/ OrdOf[a[k]] < OrdOf[b[k]])

\* a finite set of paths as a sequence in that order
RECURSIVE SortedPaths(_)
SortedPaths(S) ==
  IF S = {} THEN <<>>
  ELSE LET first == CHOOSE p \in S : \A q \in S \ {p} : PathLess(p, q)
       IN <<first>> \o SortedPaths(S \ {first})

\* the element of a one-element set; a value bound through such a set is
\* computed once
Once(S) == CHOOSE x \in S : TRUE

\* the elements of a sequence
Range(s) == {s[i] : i \in 1..Len(s)}

\* Array.prototype.filter with a set-membership test
RECURSIVE FilterSeq(_, _)
FilterSeq(s, keep) ==
  IF s = <<>> THEN <<>>
  ELSE (IF Head(s) \in keep THEN <<Head(s)>> ELSE <<>>) \o FilterSeq(Tail(s), keep)

\* [...new Set(seq)]: first occurrences, in order
RECURSIVE Dedupe(_)
Dedupe(s) ==
  IF s = <<>> THEN <<>>
  ELSE LET init == Dedupe(SubSeq(s, 1, Len(s) - 1))
       IN IF s[Len(s)] \in Range(init) THEN init ELSE Append(init, s[Len(s)])

\* decimal rendering of a natural number
RECURSIVE decimal(_)
decimal(n) ==
  LET digits == <<"0", "1", "2", "3", "4", "5", "6", "7", "8", "9">>
  IN IF n < 10 THEN <<digits[n + 1]>> ELSE decimal(n \div 10) \o <<digits[(n % 10) + 1]>>

\* ------------------------------------------------------------------------
\* Doc classifier (doc-classifier.ts)
\* ------------------------------------------------------------------------

\* docsRoot.replace(/^\.\/+/, ""): a leading dot followed by slashes is removed
RECURSIVE stripSlashesAtStart(_)
stripSlashesAtStart(s) ==
  IF s # <<>> /\ Head(s) = "/" THEN stripSlashesAtStart(Tail(s)) ELSE s

\* docsRoot.replace(/\/+$/, "")
RECURSIVE stripSlashesAtEnd(_)
stripSlashesAtEnd(s) ==
  IF s # <<>> /\ s[Len(s)] = "/" THEN stripSlashesAtEnd(SubSeq(s, 1, Len(s) - 1)) ELSE s

\* normalizeDocsRoot of the classifier
normalizeDocsRoot(docsRoot) ==
  LET slashed == [i \in 1..Len(docsRoot) |-> IF docsRoot[i] = "\\" THEN "/" ELSE docsRoot[i]]
      headless == IF Len(slashed) >= 2 /\ slashed[1] = "." /\ slashed[2] = "/"
                  THEN stripSlashesAtStart(Tail(slashed))
                  ELSE slashed
      normalized == stripSlashesAtEnd(headless)
  IN IF normalized = <<>> \/ normalized = <<".">> THEN <<"d", "o", "c", "s">> ELSE normalized

\* a variant that lets every directory count as the docs root
classifyDoc_AnyDirectoryIsDocs(relPath, docsRoot) ==
  LET baseName == basename(relPath)
      location == IF \E i \in 1..Len(relPath) : relPath[i] = "/" THEN "docs" ELSE "root"
      datePrefix == extractDatePrefix(baseName)
      isCanonical == getCanonicalBaseName(baseName) # NULL
      mode == IF datePrefix # NULL THEN "lowercase"
              ELSE IF isCanonical \/ (location = "docs" /\ isAllCapsDocBaseName(baseName))
                THEN "capitalized"
              ELSE "lowercase"
  IN [relPath |-> relPath,
      location |-> location,
      baseName |-> baseName,
      mode |-> mode,
      datePrefix |-> datePrefix,
      shouldDatePrefix |-> (mode = "lowercase" /\ location # "other" /\ datePrefix = NULL)]

\* classifyDoc: relPath is a Markdown path, docsRoot a normalized docs root
classifyDoc(relPath, docsRoot) ==
  LET baseName == basename(relPath)
      docsPrefix == docsRoot \o <<"/">>
      location == IF \E i \in 1..Len(relPath) : relPath[i] = "/"
                  THEN (IF startsWith(relPath, docsPrefix) THEN "docs" ELSE "other")
                  ELSE "root"
      datePrefix == extractDatePrefix(baseName)
      isCanonical == getCanonicalBaseName(baseName) # NULL
      mode == IF datePrefix # NULL THEN "lowercase"
              ELSE IF isCanonical \/ (location = "docs" /\ isAllCapsDocBaseName(baseName))
                THEN "capitalized"
              ELSE "lowercase"
  IN [relPath |-> relPath,
      location |-> location,
      baseName |-> baseName,
      mode |-> mode,
      datePrefix |-> datePrefix,
      shouldDatePrefix |-> (mode = "lowercase" /\ location # "other" /\ datePrefix = NULL)]

\* ------------------------------------------------------------------------
\* Frontmatter and titles (migrator.ts, frontmatter.ts)
\* ------------------------------------------------------------------------

\* U+FEFF, one code unit
BOM == "BOM"

\* content.replace(/^\uFEFF/, "")
stripBom(content) ==
  IF Len(content) >= 1 /\ content[1] = BOM THEN sliceFrom(content, 2) ELSE content

hasFrontmatter(content) ==
  LET s == stripBom(content)
  IN IF ~startsWith(s, <<"-", "-", "-", "\n">>) /\ ~startsWith(s, <<"-", "-", "-", "\r", "\n">>) THEN FALSE
     ELSE LET end == indexOf(s, <<"\n", "-", "-", "-">>, 5)
          IN IF end = 0 THEN FALSE
             ELSE LET after == sliceFrom(s, end + 1)
                  IN startsWith(after, <<"-", "-", "-", "\n">>) \/ startsWith(after, <<"-", "-", "-", "\r", "\n">>)

\* content.split(/\r?\n/)
RECURSIVE splitLines(_)
splitLines(s) ==
  LET nl == indexOf(s, <<"\n">>, 1)
  IN IF nl = 0 THEN <<s>>
     ELSE <<IF nl > 1 /\ s[nl - 1] = "\r" THEN SubSeq(s, 1, nl - 2) ELSE SubSeq(s, 1, nl - 1)>>
          \o splitLines(sliceFrom(s, nl + 1))

\* line.match(/^#\s+(.+)\s*$/)
isHeadingLine(line) ==
  /\ Len(line) >= 3
  /\ line[1] = "#"
  /\ line[2] \in WhiteSpace
  /\ \A i \in 3..Len(line) : line[i] \notin {"\n", "\r"}

\* parseFrontmatterBlock (frontmatter.ts), the hasFrontmatter field of its
\* result: the first line is --- and a later line is ---
parseFrontmatterBlock(content) ==
  LET lines == splitLines(content)
  IN [hasFrontmatter |-> /\ lines[1] = <<"-", "-", "-">>
                         /\ \E i \in 2..Len(lines) : lines[i] = <<"-", "-", "-">>]

RECURSIVE titleFromLines(_)
titleFromLines(lines) ==
  IF lines = <<>> THEN NULL
  ELSE IF isHeadingLine(Head(lines)) THEN trim(sliceFrom(Head(lines), 3))
  ELSE IF trim(Head(lines)) # <<>> THEN NULL
  ELSE titleFromLines(Tail(lines))

titleFromMarkdown(content) == titleFromLines(splitLines(stripBom(content)))

\* s.split(/[-_\s]+/).filter(Boolean)
RECURSIVE splitWords(_)
splitWords(s) ==
  LET seps == {i \in 1..Len(s) : s[i] \in DateSeparators}
  IN IF s = <<>> THEN <<>>
     ELSE IF seps = {} THEN <<s>>
     ELSE LET k == CHOOSE i \in seps : \A j \in seps : i <= j
          IN (IF k = 1 THEN <<>> ELSE <<SubSeq(s, 1, k - 1)>>) \o splitWords(sliceFrom(s, k + 1))

RECURSIVE joinWords(_)
joinWords(words) ==
  IF words = <<>> THEN <<>>
  ELSE IF Len(words) = 1 THEN toUpperCase(<<words[1][1]>>) \o Tail(words[1])
  ELSE toUpperCase(<<words[1][1]>>) \o Tail(words[1]) \o <<" ">> \o joinWords(Tail(words))

titleFromSlug(slug) ==
  LET l == toLowerCase(slug)
      noExt == IF endsWith(l, <<".", "m", "d">>) THEN SubSeq(slug, 1, Len(slug) - 3)
               ELSE IF endsWith(l, <<".", "m", "d", "x">>) THEN SubSeq(slug, 1, Len(slug) - 4)
               ELSE slug
      afterDate == {i \in 11..Len(noExt) : noExt[i] \notin DateSeparators}
      noDate == IF startsWithDate(noExt) /\ Len(noExt) >= 11 /\ noExt[11] \in DateSeparators
                THEN (IF afterDate = {} THEN <<>>
                      ELSE sliceFrom(noExt, CHOOSE i \in afterDate : \A j \in afterDate : i <= j))
                ELSE noExt
      words == splitWords(noDate)
  IN IF words = <<>> THEN <<"U", "n", "t", "i", "t", "l", "e", "d">> ELSE joinWords(words)

\* value.replace(/\r?\n/g, " ")
RECURSIVE newlinesToSpaces(_)
newlinesToSpaces(s) ==
  IF s = <<>> THEN <<>>
  ELSE IF Len(s) >= 2 /\ s[1] = "\r" /\ s[2] = "\n" THEN <<" ">> \o newlinesToSpaces(sliceFrom(s, 3))
  ELSE IF s[1] = "\n" THEN <<" ">> \o newlinesToSpaces(Tail(s))
  ELSE <<s[1]>> \o newlinesToSpaces(Tail(s))

\* .replace(/\\/g, "\\\\").replace(/"/g, '\\"')
RECURSIVE escapeQuoted(_)
escapeQuoted(s) ==
  IF s = <<>> THEN <<>>
  ELSE (IF s[1] = "\\" THEN <<"\\", "\\">>
        ELSE IF s[1] = "\"" THEN <<"\\", "\"">>
        ELSE <<s[1]>>) \o escapeQuoted(Tail(s))

yamlQuote(value) == <<"\"">> \o escapeQuoted(trim(newlinesToSpaces(value))) \o <<"\"">>

RECURSIVE formatArrayItems(_)
formatArrayItems(values) ==
  IF values = <<>> THEN <<>>
  ELSE IF Len(values) = 1 THEN yamlQuote(values[1])
  ELSE yamlQuote(values[1]) \o <<",", " ">> \o formatArrayItems(Tail(values))

formatArray(values) == <<"[">> \o formatArrayItems(values) \o <<"]">>

\* buildFrontmatter with DOC_FRONTMATTER_ORDER and quoteStrings; an absent
\* string is NULL, absent tags are the empty sequence
buildDocFrontmatter(title, author, date, tags) ==
  LET line(key, value) ==
        IF value = NULL \/ trim(value) = <<>> THEN <<>> ELSE <<key \o <<":", " ">> \o yamlQuote(value)>>
      tagLine == IF tags = <<>> THEN <<>> ELSE <<<<"t", "a", "g", "s", ":", " ">> \o formatArray(tags)>>
      lines == line(<<"t", "i", "t", "l", "e">>, title) \o line(<<"a", "u", "t", "h", "o", "r">>, author) \o line(<<"d", "a", "t", "e">>, date) \o tagLine
      joined[i \in 0..Len(lines)] ==
        IF i = 0 THEN <<>>
        ELSE IF i = 1 THEN lines[1]
        ELSE joined[i - 1] \o <<"\n">> \o lines[i]
  IN <<"-", "-", "-", "\n">> \o joined[Len(lines)] \o <<"\n", "-", "-", "-", "\n", "\n">>

\* ------------------------------------------------------------------------
\* Ignore globs (ignore.ts)
\* ------------------------------------------------------------------------

\* does the regular expression globToRegexSource(pat) match all of s
RECURSIVE globMatches(_, _)
globMatches(pat, s) ==
  IF pat = <<>> THEN s = <<>>
  ELSE IF startsWith(pat, <<"*", "*", "/">>) THEN
    \/ globMatches(sliceFrom(pat, 4), s)
    \/ \E k \in 1..Len(s) : s[k] = "/" /\ globMatches(sliceFrom(pat, 4), sliceFrom(s, k + 1))
  ELSE IF startsWith(pat, <<"*", "*">>) THEN
    \E k \in 0..Len(s) : globMatches(sliceFrom(pat, 3), sliceFrom(s, k + 1))
  ELSE IF pat[1] = "*" THEN
    \E k \in 0..Len(s) :
      /\ \A i \in 1..k : s[i] # "/"
      /\ globMatches(Tail(pat), sliceFrom(s, k + 1))
  ELSE IF pat[1] = "?" THEN
    s # <<>> /\ s[1] # "/" /\ globMatches(Tail(pat), Tail(s))
  ELSE s # <<>> /\ s[1] = pat[1] /\ globMatches(Tail(pat), Tail(s))

\* pattern.replace(/^\.\/+/, "")
stripDotSlash(p) ==
  LET rest == {i \in 3..Len(p) : p[i] # "/"}
  IN IF startsWith(p, <<".", "/">>)
     THEN (IF rest = {} THEN <<>> ELSE sliceFrom(p, CHOOSE i \in rest : \A j \in rest : i <= j))
     ELSE p

\* pattern.replace(/\/+$/, "")
stripTrailingSlashes(p) ==
  LET keep == {i \in 1..Len(p) : p[i] # "/"}
  IN IF keep = {} THEN <<>> ELSE SubSeq(p, 1, CHOOSE i \in keep : \A j \in keep : i >= j)

\* globToRegExp(pattern).test(relPath)
globToRegExpTest(pattern, relPath) ==
  LET normalized == stripTrailingSlashes(stripDotSlash(pattern))
  IN IF endsWith(normalized, <<"/", "*", "*">>)
     THEN LET base == SubSeq(normalized, 1, Len(normalized) - 3)
          IN \/ globMatches(base, relPath)
             \/ \E k \in 1..Len(relPath) :
                  relPath[k] = "/" /\ globMatches(base, SubSeq(relPath, 1, k - 1))
     ELSE globMatches(normalized, relPath)

\* buildIgnoreMatcher(patterns)(relPath)
ignoreMatcher(patterns, relPath) ==
  \E i \in 1..Len(patterns) : globToRegExpTest(patterns[i], relPath)

\* ------------------------------------------------------------------------
\* The working copy as the planner and the applier see it
\* ------------------------------------------------------------------------

\* the name under which a file system that ignores case (ci) files a path
fsKey(ci, p) == IF ci THEN toLowerCase(p) ELSE p

\* fs.access: files is the function from the paths on disk to their file
pathExists(files, ci, relPath) ==
  \E q \in DOMAIN files : fsKey(ci, q) = fsKey(ci, relPath)

\* fs.readFile(path, "utf8"); NULL when the read fails
readFile(files, ci, relPath) ==
  IF pathExists(files, ci, relPath)
  THEN files[CHOOSE q \in DOMAIN files : fsKey(ci, q) = fsKey(ci, relPath)].content
  ELSE NULL

UnknownAuthor == <<"U", "n", "k", "n", "o", "w", "n", " ", "<", "u", "n", "k", "n", "o", "w", "n", "@", "e", "x", "a", "m", "p", "l", "e", ".", "c", "o", "m", ">">>

\* birth time of the file, with the placeholder author
getFileSystemInfo(files, ci, filePath) ==
  [date |-> files[CHOOSE q \in DOMAIN files : fsKey(ci, q) = fsKey(ci, filePath)].birth,
   author |-> UnknownAuthor]

\* what the log entry of a path is when git log exits with an error: execGit
\* rejects, and run, limit and getCreationInfo pass the rejection on
GitFails == [date |-> <<"THROW">>, author |-> <<"THROW">>]

\* git log --follow: the oldest entry of the path, NULL without history,
\* GitFails when the command fails
getCreationInfo(gitLog, filePath) ==
  IF filePath \in DOMAIN gitLog THEN gitLog[filePath] ELSE [date |-> NULL, author |-> NULL]

\* getMeta of planMigration, without its cache; a rejection of
\* git.getCreationInfo is not caught and is the result
getMeta(files, ci, trackedSet, gitLog, filePath) ==
  LET info == IF filePath \in trackedSet
              THEN getCreationInfo(gitLog, filePath)
              ELSE [date |-> NULL, author |-> NULL]
  IN IF info.date # NULL THEN info ELSE getFileSystemInfo(files, ci, filePath)

\* listRootFiles: plain files of the repo root that are not dot files
listRootFiles(files) ==
  SortedPaths({p \in DOMAIN files : lastIndexOf(p, "/") = 0 /\ p[1] # "."})

stripDatePrefixFromBaseName(baseName) ==
  LET dot == lastIndexOf(baseName, ".")
      ext == IF dot = 0 THEN <<>> ELSE sliceFrom(baseName, dot)
      stem == IF dot = 0 THEN baseName ELSE SubSeq(baseName, 1, dot - 1)
      after == {i \in 11..Len(stem) : stem[i] \notin DateSeparators}
      stripped == IF ~startsWithDate(stem) THEN stem
                  ELSE IF after = {} THEN <<>>
                  ELSE sliceFrom(stem, CHOOSE i \in after : \A j \in after : i <= j)
      strippedStem == trim(stripped)
  IN (IF strippedStem # <<>> THEN strippedStem ELSE <<"u", "n", "t", "i", "t", "l", "e", "d">>) \o ext

\* the loop bound of uniqueTargetPath
SUFFIX_LIMIT == 10000

\* the result of uniqueTargetPath when it throws
NoUniqueTarget == <<"THROW">>

\* a variant whose suffixes start at 3
uniqueTargetPath_FromThree(preferredRelPath, occupied) ==
  IF preferredRelPath \notin occupied THEN preferredRelPath
  ELSE LET parts == parsePathParts(preferredRelPath)
           candidate(i) == posixJoin(parts.dir, parts.name \o <<"-">> \o decimal(i) \o parts.ext)
       IN candidate(CHOOSE i \in 3..(Cardinality(occupied) + 3) :
                      /\ candidate(i) \notin occupied
                      /\ \A j \in 3..(i - 1) : candidate(j) \in occupied)

\* a variant that hands back the preferred path, occupied or not
uniqueTargetPath_Preferred(preferredRelPath, occupied) == preferredRelPath

uniqueTargetPath(preferredRelPath, occupied) ==
  IF preferredRelPath \notin occupied THEN preferredRelPath
  ELSE LET parts == parsePathParts(preferredRelPath)
           candidate(i) == posixJoin(parts.dir, parts.name \o <<"-">> \o decimal(i) \o parts.ext)
           free == {i \in 2..(Cardinality(occupied) + 2) : candidate(i) \notin occupied}
           first == CHOOSE i \in free : \A j \in free : i <= j
       IN IF first < SUFFIX_LIMIT THEN candidate(first) ELSE NoUniqueTarget

\* ------------------------------------------------------------------------
\* Migration planner (migrator.ts, planMigration)
\* ------------------------------------------------------------------------
\* w is the working copy: files (path -> [content, birth]), ci (the file
\* system ignores case), tracked (git ls-files), gitLog (path -> FileMeta of
\* its oldest commit).  o is the resolved MigrationPlanOptions record.

\* git ls-files --cached --others --exclude-standard
listRepoFiles(w) == SortedPaths(w.tracked \cup DOMAIN w.files)

\* a variant that takes every Markdown file at the repo root
rootMarkdown_AnyName(w, o) ==
  LET rootFiles == listRootFiles(w.files)
  IN FilterSeq(rootFiles,
       {f \in Range(rootFiles) : ~ignoreMatcher(o.ignoreGlobs, f) /\ isMarkdownFile(f)})

\* rootMarkdown of planMigration
rootMarkdown(w, o) ==
  LET rootFiles == listRootFiles(w.files)
  IN FilterSeq(rootFiles,
       {f \in Range(rootFiles) :
          /\ ~ignoreMatcher(o.ignoreGlobs, f)
          /\ isMarkdownFile(f)
          /\ \/ getCanonicalBaseName(f) # NULL
             \/ extractDatePrefix(f) # NULL
             \/ isLowercaseDocBaseName(f)})

\* existingOnDiskAll of planMigration
existingOnDiskAll(w) ==
  LET existingAll == listRepoFiles(w)
  IN FilterSeq(existingAll, {p \in Range(existingAll) : pathExists(w.files, w.ci, p)})

\* a variant that keeps the files that an ignore glob matches
existingOnDisk_Unfiltered(w, o) == existingOnDiskAll(w)

\* existingOnDisk of planMigration
existingOnDisk(w, o) ==
  LET all == existingOnDiskAll(w)
  IN FilterSeq(all, {p \in Range(all) : ~ignoreMatcher(o.ignoreGlobs, p)})

\* candidates of planMigration, in discovery order
candidates(w, o) ==
  LET onDisk == existingOnDisk(w, o)
      docsMarkdown == FilterSeq(onDisk,
        {p \in Range(onDisk) : startsWith(p, o.docsRoot \o <<"/">>) /\ isMarkdownFile(p)})
  IN Dedupe(rootMarkdown(w, o) \o docsMarkdown)

\* renameCaseOverrides[filePath] ?? classification.mode
desiredModeOf(o, classification) ==
  IF classification.relPath \in DOMAIN o.renameCaseOverrides
  THEN o.renameCaseOverrides[classification.relPath]
  ELSE classification.mode

\* one iteration of the desiredTargets loop: the target of filePath, whether
\* the iteration throws (conflict) and whether it calls getMeta (lookup)
desiredTarget(w, o, filePath) ==
  LET c == classifyDoc(filePath, o.docsRoot)
      base == c.baseName
      desiredMode == desiredModeOf(o, c)
      forceDatePrefix == filePath \in o.forceDatePrefixPaths
      forceUndated == filePath \in o.forceUndatedPaths
      sameDir(targetBase) == posixJoin(dirname(filePath), targetBase)
      metaDate == getMeta(w.files, w.ci, w.tracked, w.gitLog, filePath).date
      result(to, lookup) == [from |-> filePath, to |-> to, conflict |-> FALSE, lookup |-> lookup]
      capitalizedTarget ==
        IF ~o.includeCanonicalRenames THEN result(filePath, FALSE)
        ELSE result(sameDir(applyRenameCase(base, desiredMode)), FALSE)
  IN IF forceDatePrefix /\ forceUndated
       THEN [from |-> filePath, to |-> filePath, conflict |-> TRUE, lookup |-> FALSE]
     ELSE IF c.location = "root" /\ ~o.moveRootMarkdownToDocs
       THEN (IF c.mode = "capitalized" THEN capitalizedTarget ELSE result(filePath, FALSE))
     ELSE IF c.location = "root" /\ c.datePrefix # NULL
       THEN result(posixJoin(o.docsRoot,
                     IF o.normalizeDatePrefixedDocs THEN applyRenameCase(base, desiredMode) ELSE base),
                   FALSE)
     ELSE IF c.location = "root" /\ (c.shouldDatePrefix \/ (c.datePrefix = NULL /\ forceDatePrefix))
       THEN result(posixJoin(o.docsRoot, metaDate \o <<"-">> \o applyRenameCase(base, desiredMode)), TRUE)
     ELSE IF c.location = "root" /\ c.mode = "capitalized"
       THEN capitalizedTarget
     ELSE IF c.location = "docs" /\ forceUndated
       THEN result(sameDir(applyRenameCase(
                     IF c.datePrefix # NULL THEN stripDatePrefixFromBaseName(base) ELSE base,
                     desiredMode)), FALSE)
     ELSE IF c.location = "docs" /\ c.datePrefix # NULL
       THEN (IF ~o.normalizeDatePrefixedDocs THEN result(filePath, FALSE)
             ELSE result(sameDir(applyRenameCase(base, desiredMode)), FALSE))
     ELSE IF c.location = "docs" /\ ((o.renameDocsToDatePrefix /\ c.shouldDatePrefix) \/ forceDatePrefix)
       THEN result(sameDir(metaDate \o <<"-">> \o applyRenameCase(base, desiredMode)), TRUE)
     ELSE IF c.location = "docs" /\ c.mode = "capitalized"
       THEN capitalizedTarget
     ELSE result(filePath, FALSE)

\* the desiredTargets map as a sequence of entries in insertion order
desiredTargets(w, o, cands) ==
  [i \in 1..Len(cands) |-> desiredTarget(w, o, cands[i])] \o <<>>

\* the collision-resolution loop over the renames that are left, given the
\* occupied set so far
RECURSIVE resolveCollisions(_, _)
resolveCollisions(renames, occupied) ==
  IF renames = <<>> THEN <<>>
  ELSE Once({<<[from |-> Head(renames).from, to |-> uniqueTo]>>
               \o resolveCollisions(Tail(renames), occupied \cup {uniqueTo}) :
             uniqueTo \in {uniqueTargetPath(Head(renames).to, occupied)}})

\* renames of planMigration: the desired targets that differ from their source
renamesOf(targets) ==
  FilterSeq(targets, {targets[i] : i \in {j \in 1..Len(targets) : targets[j].from # targets[j].to}})

\* a variant in which the files that stay in place do not count as occupied
finalRenames_NothingOccupied(w, renames) == resolveCollisions(renames, {})

\* finalRenames of planMigration
finalRenames(w, renames) ==
  LET sourcesToRename == {renames[i].from : i \in 1..Len(renames)}
      occupied == Range(existingOnDiskAll(w)) \ sourcesToRename
  IN resolveCollisions(renames, occupied)

\* renameMap.get(filePath) ?? filePath
renamedPath(renames, filePath) ==
  IF \E i \in 1..Len(renames) : renames[i].from = filePath
  THEN renames[CHOOSE i \in 1..Len(renames) : renames[i].from = filePath].to
  ELSE filePath

\* one iteration of the frontmatterAdds loop: <<action>> or <<>>
frontmatterAdd(w, o, renames, filePath) ==
  LET targetPath == renamedPath(renames, filePath)
      targetBase == basename(targetPath)
      datePrefix == extractDatePrefix(targetBase)
      atTarget == readFile(w.files, w.ci, targetPath)
      content == IF atTarget # NULL THEN atTarget ELSE readFile(w.files, w.ci, filePath)
      meta == getMeta(w.files, w.ci, w.tracked, w.gitLog, filePath)
      defaults == o.frontmatterDefaults
      author == IF defaults.author # NULL THEN defaults.author
                ELSE IF meta.author # NULL THEN meta.author
                ELSE UnknownAuthor
      titleFromDoc == titleFromMarkdown(content)
      plainTitle == IF titleFromDoc # NULL THEN titleFromDoc ELSE titleFromSlug(targetBase)
      title == IF (titleFromDoc = NULL \/ titleFromDoc = <<>>)
                  /\ defaults.titlePrefix # NULL /\ defaults.titlePrefix # <<>>
               THEN trim(trim(defaults.titlePrefix) \o <<" ">> \o plainTitle)
               ELSE plainTitle
  IN IF datePrefix = NULL THEN <<>>
     ELSE IF content = NULL \/ content = <<>> THEN <<>>
     ELSE IF hasFrontmatter(content) THEN <<>>
     ELSE <<[path |-> targetPath, title |-> title, author |-> author,
             date |-> datePrefix, tags |-> defaults.tags]>>

\* frontmatterAdds of planMigration over cands[1..n]
RECURSIVE frontmatterAdds(_, _, _, _, _)
frontmatterAdds(w, o, renames, cands, n) ==
  IF n = 0 \/ ~o.addFrontmatter THEN <<>>
  ELSE frontmatterAdds(w, o, renames, cands, n - 1) \o frontmatterAdd(w, o, renames, cands[n])

\* ------------------------------------------------------------------------
\* Reference scan and rewrite (migrator.ts)
\* ------------------------------------------------------------------------

\* buildReferenceReplacements: from distinct renames, so no key repeats
RECURSIVE buildReferenceReplacements(_)
buildReferenceReplacements(renames) ==
  IF renames = <<>> THEN <<>>
  ELSE LET r == Head(renames)
       IN << [from |-> r.from, to |-> r.to],
             [from |-> <<".", "/">> \o r.from, to |-> <<".", "/">> \o r.to],
             [from |-> <<".", ".", "/">> \o r.from, to |-> <<".", ".", "/">> \o r.to] >>
          \o buildReferenceReplacements(Tail(renames))

\* Array.prototype.sort((a, b) => b.length - a.length): stable, longest first
RECURSIVE sortLongestFirst(_)
sortLongestFirst(pats) ==
  IF pats = <<>> THEN <<>>
  ELSE LET longest == CHOOSE i \in 1..Len(pats) :
             /\ \A j \in 1..Len(pats) : Len(pats[j]) <= Len(pats[i])
             /\ \A j \in 1..(i - 1) : Len(pats[j]) < Len(pats[i])
       IN <<pats[longest]>>
          \o sortLongestFirst(SubSeq(pats, 1, longest - 1) \o SubSeq(pats, longest + 1, Len(pats)))

\* buildReplacementRegex: the alternatives of the pattern, in order
buildReplacementRegex(replacements) ==
  sortLongestFirst([i \in 1..Len(replacements) |-> replacements[i].from] \o <<>>)

\* the first alternative that matches content at position i, 0 when none
alternativeAt(content, regex, i) ==
  LET hits == {k \in 1..Len(regex) : startsWith(sliceFrom(content, i), regex[k])}
  IN IF hits = {} THEN 0 ELSE CHOOSE k \in hits : \A j \in hits : k <= j

\* the positions from i on at which an alternative matches
matchStartsFrom(content, regex, i) ==
  {k \in i..Len(content) : alternativeAt(content, regex, k) # 0}

\* content.match(regex).length with the g flag: the scan goes on behind
\* each match
RECURSIVE countMatchesFrom(_, _, _)
countMatchesFrom(content, regex, i) ==
  LET starts == matchStartsFrom(content, regex, i)
      at == CHOOSE k \in starts : \A j \in starts : k <= j
  IN IF starts = {} THEN 0
     ELSE 1 + countMatchesFrom(content, regex, at + Len(regex[alternativeAt(content, regex, at)]))

countMatches(content, regex) == countMatchesFrom(content, regex, 1)

\* content.replace(regex, (match) => replacementMap.get(match) ?? match):
\* the text before the next match is kept, the match is replaced, and the
\* scan goes on behind it
RECURSIVE replaceMatchesFrom(_, _, _, _)
replaceMatchesFrom(content, regex, replacements, i) ==
  LET starts == matchStartsFrom(content, regex, i)
      at == CHOOSE k \in starts : \A j \in starts : k <= j
      matched == regex[alternativeAt(content, regex, at)]
  IN IF starts = {} THEN sliceFrom(content, i)
     ELSE SubSeq(content, i, at - 1)
          \o replacements[CHOOSE j \in 1..Len(replacements) : replacements[j].from = matched].to
          \o replaceMatchesFrom(content, regex, replacements, at + Len(matched))

\* a variant that scans its own result once more
replaceMatches_Twice(content, replacements) ==
  LET regex == buildReplacementRegex(replacements)
  IN replaceMatchesFrom(replaceMatchesFrom(content, regex, replacements, 1),
                        regex, replacements, 1)

\* a variant without the g flag: only the first match is replaced
replaceMatches_First(content, replacements) ==
  LET regex == buildReplacementRegex(replacements)
      hits == {i \in 1..Len(content) : alternativeAt(content, regex, i) # 0}
      first == CHOOSE i \in hits : \A j \in hits : i <= j
  IN IF hits = {} THEN content
     ELSE SubSeq(content, 1, first - 1)
          \o replacements[CHOOSE j \in 1..Len(replacements) :
                            replacements[j].from = regex[alternativeAt(content, regex, first)]].to
          \o sliceFrom(content, first + Len(regex[alternativeAt(content, regex, first)]))

\* content.replace(regex, (match) => replacementMap.get(match) ?? match)
replaceMatches(content, replacements) ==
  replaceMatchesFrom(content, buildReplacementRegex(replacements), replacements, 1)

MAX_REFERENCE_UPDATE_BYTES == 1000000

REFERENCE_IGNORE_DIR_PREFIXES == {<<"n", "o", "d", "e", "_", "m", "o", "d", "u", "l", "e", "s", "/">>, <<"d", "i", "s", "t", "/">>, <<"d", "i", "s", "t", "-", "t", "e", "s", "t", "/">>, <<".", "g", "i", "t", "/">>}

REFERENCE_IGNORE_EXTENSIONS ==
  { <<".", "7", "z">>, <<".", "a", "v", "i">>, <<".", "b", "m", "p">>, <<".", "c", "l", "a", "s", "s">>, <<".", "d", "l", "l">>, <<".", "d", "m", "g">>, <<".", "e", "x", "e">>, <<".", "g", "i", "f">>, <<".", "g", "z">>, <<".", "i", "c", "o">>,
    <<".", "j", "a", "r">>, <<".", "j", "p", "e", "g">>, <<".", "j", "p", "g">>, <<".", "m", "k", "v">>, <<".", "m", "o", "v">>, <<".", "m", "p", "3">>, <<".", "m", "p", "4">>, <<".", "o">>, <<".", "o", "t", "f">>, <<".", "p", "d", "f">>,
    <<".", "p", "n", "g">>, <<".", "s", "o">>, <<".", "t", "a", "r">>, <<".", "t", "g", "z">>, <<".", "t", "i", "f", "f">>, <<".", "t", "t", "f">>, <<".", "w", "e", "b", "p">>, <<".", "w", "o", "f", "f">>, <<".", "w", "o", "f", "f", "2">>, <<".", "z", "i", "p">> }

\* path.posix.extname
extname(relPath) ==
  LET base == basename(relPath)
      dot == lastIndexOf(base, ".")
  IN IF dot <= 1 THEN <<>> ELSE sliceFrom(base, dot)

shouldScanForReferenceUpdates(relPath) ==
  /\ \A prefix \in REFERENCE_IGNORE_DIR_PREFIXES : ~startsWith(relPath, prefix)
  /\ toLowerCase(extname(relPath)) \notin REFERENCE_IGNORE_EXTENSIONS

\* U+0000, one code unit
NUL == "NUL"

readSmallTextFileForReferences(w, relPath) ==
  LET content == readFile(w.files, w.ci, relPath)
  IN IF ~shouldScanForReferenceUpdates(relPath) THEN NULL
     ELSE IF content = NULL THEN NULL
     ELSE IF Len(content) > MAX_REFERENCE_UPDATE_BYTES THEN NULL
     ELSE IF \E i \in 1..Len(content) : content[i] = NUL THEN NULL
     ELSE content

\* git grep -l -F -e p1 -e p2 ...: tracked files of the work tree that
\* contain one of the patterns, in index order
grepFilesFixed(w, patterns) ==
  LET hits == {p \in w.tracked :
                 /\ p \in DOMAIN w.files
                 /\ \E i \in 1..Len(patterns) : indexOf(w.files[p].content, patterns[i], 1) # 0}
  IN SortedPaths(hits)

\* one iteration of the reference scan loop: <<action>> or <<>>
referenceUpdate(w, renames, regex, filePath) ==
  LET content == readSmallTextFileForReferences(w, filePath)
      matchCount == countMatches(content, regex)
  IN IF content = NULL \/ content = <<>> THEN <<>>
     ELSE IF matchCount = 0 THEN <<>>
     ELSE <<[path |-> renamedPath(renames, filePath), matchCount |-> matchCount]>>

RECURSIVE referenceUpdatesOver(_, _, _, _, _)
referenceUpdatesOver(w, renames, regex, scan, n) ==
  IF n = 0 THEN <<>>
  ELSE referenceUpdatesOver(w, renames, regex, scan, n - 1)
       \o referenceUpdate(w, renames, regex, scan[n])

\* referenceUpdates of planMigration
referenceUpdates(w, o, renames) ==
  LET regex == buildReplacementRegex(buildReferenceReplacements(renames))
      searchStrings == [i \in 1..Len(renames) |-> renames[i].from] \o <<>>
      grepped == grepFilesFixed(w, searchStrings)
      onDisk == existingOnDisk(w, o)
      untracked == FilterSeq(onDisk, {p \in Range(onDisk) : p \notin w.tracked})
      candidatesForScan ==
        Dedupe(FilterSeq(grepped, {p \in Range(grepped) : ~ignoreMatcher(o.ignoreGlobs, p)})
               \o untracked)
  IN IF renames = <<>> THEN <<>>
     ELSE referenceUpdatesOver(w, renames, regex, candidatesForScan, Len(candidatesForScan))

\* a variant of getMeta without its cache
historyLookups_Uncached(w, cands, targets, adds, renames) ==
  LET fromTargets == FilterSeq(targets, {targets[i] : i \in {j \in 1..Len(targets) : targets[j].lookup}})
      firstLoop == [i \in 1..Len(fromTargets) |-> fromTargets[i].from] \o <<>>
      secondLoop == FilterSeq(cands,
        {p \in Range(cands) : \E i \in 1..Len(adds) : adds[i].path = renamedPath(renames, p)})
  IN FilterSeq(firstLoop \o secondLoop, w.tracked)

\* the paths for which planMigration calls git.getCreationInfo, in call order
\* (getMeta caches per path and asks git only about tracked paths)
historyLookups(w, cands, targets, adds, renames) ==
  LET fromTargets == FilterSeq(targets, {targets[i] : i \in {j \in 1..Len(targets) : targets[j].lookup}})
      firstLoop == [i \in 1..Len(fromTargets) |-> fromTargets[i].from] \o <<>>
      secondLoop == FilterSeq(cands,
        {p \in Range(cands) : \E i \in 1..Len(adds) : adds[i].path = renamedPath(renames, p)})
      requests == Dedupe(firstLoop \o secondLoop)
  IN FilterSeq(requests, w.tracked)

\* what planMigration returns when it throws
FailedPlan(w) ==
  [made |-> TRUE, failed |-> TRUE, renames |-> <<>>, frontmatters |-> <<>>,
   references |-> <<>>, lookups |-> <<>>, trackedSet |-> w.tracked]

\* the plan that planMigration returns once the frontmatter actions are
\* known; a getMeta call that rejected has ended planMigration
planWithAdds(w, o, cands, targets, renames, adds) ==
  Once({IF \E i \in 1..Len(lookups) : getCreationInfo(w.gitLog, lookups[i]) = GitFails
        THEN FailedPlan(w)
        ELSE [made |-> TRUE, failed |-> FALSE, renames |-> renames, frontmatters |-> adds,
              references |-> referenceUpdates(w, o, renames),
              lookups |-> lookups,
              trackedSet |-> w.tracked] :
        lookups \in {historyLookups(w, cands, targets, adds, renames)}})

\* the plan that planMigration returns once the renames are final
planWith(w, o, cands, targets, renames) ==
  Once({planWithAdds(w, o, cands, targets, renames, adds) :
        adds \in {frontmatterAdds(w, o, renames, cands, Len(cands))}})

\* planMigration after the collision loop: the loop may have thrown
planFromRenames(w, o, cands, targets, renames) ==
  IF \E i \in 1..Len(renames) : renames[i].to = NoUniqueTarget
  THEN FailedPlan(w)
  ELSE planWith(w, o, cands, targets, renames)

\* planMigration after the desiredTargets loop: the loop may have thrown
planFromTargets(w, o, cands, targets) ==
  IF \E i \in 1..Len(targets) : targets[i].conflict
  THEN FailedPlan(w)
  ELSE Once({planFromRenames(w, o, cands, targets, renames) :
             renames \in {finalRenames(w, renamesOf(targets))}})

\* planMigration after candidate discovery
planFromCandidates(w, o, cands) ==
  Once({planFromTargets(w, o, cands, targets) : targets \in {desiredTargets(w, o, cands)}})

\* planMigration: the plan, or a failed plan when the call throws
planMigration(w, o) ==
  Once({planFromCandidates(w, o, cands) : cands \in {candidates(w, o)}})
\* ------------------------------------------------------------------------
\* Plan applier (migrator.ts, runMigrationPlan)
\* ------------------------------------------------------------------------

\* the file on disk that relPath names
fileAt(files, ci, relPath) == CHOOSE q \in DOMAIN files : fsKey(ci, q) = fsKey(ci, relPath)

\* the files after a successful rename of from to to: the destination entry,
\* if any, is replaced
filesAfterMove(files, ci, from, to) ==
  LET src == fileAt(files, ci, from)
      kept == {q \in DOMAIN files : q # src /\ fsKey(ci, q) # fsKey(ci, to)}
  IN [q \in kept \cup {to} |-> IF q = to THEN files[src] ELSE files[q]]

\* move of applyRenames: git mv for a tracked source, fs.rename otherwise.
\* git mv refuses a source that is not in the index and a destination that
\* exists; fs.rename replaces an existing destination.
move(w, from, to, tracked) ==
  IF ~pathExists(w.files, w.ci, from) THEN [ok |-> FALSE, w |-> w]
  ELSE IF tracked /\ from \notin w.tracked THEN [ok |-> FALSE, w |-> w]
  ELSE IF tracked /\ pathExists(w.files, w.ci, to)
          /\ fileAt(w.files, w.ci, to) # fileAt(w.files, w.ci, from)
    THEN [ok |-> FALSE, w |-> w]
  ELSE [ok |-> TRUE,
        w |-> [w EXCEPT !.files = filesAfterMove(w.files, w.ci, from, to),
                        !.tracked = IF tracked THEN (w.tracked \ {from}) \cup {to} ELSE w.tracked]]

\* the loop bound of uniqueTempPath
TEMP_LIMIT == 10000

NoTempPath == <<"THROW">>

uniqueTempPath(w, fromRelPath, occupied) ==
  LET parts == parsePathParts(fromRelPath)
      candidate(i) == posixJoin(parts.dir,
        parts.base \o (IF i = 1 THEN <<".", "s", "i", "m", "p", "l", "e", "d", "o", "c", "-", "t", "m", "p">> ELSE <<".", "s", "i", "m", "p", "l", "e", "d", "o", "c", "-", "t", "m", "p", "-">> \o decimal(i)))
      free == {i \in 1..(Cardinality(occupied) + Cardinality(DOMAIN w.files) + 1) :
                 candidate(i) \notin occupied /\ ~pathExists(w.files, w.ci, candidate(i))}
      first == CHOOSE i \in free : \A j \in free : i <= j
  IN IF first < TEMP_LIMIT THEN candidate(first) ELSE NoTempPath

\* a variant that compares the paths as they are written
needsTwoPhase_CaseSensitive(renames) ==
  \E i, j \in 1..Len(renames) : renames[i].to = renames[j].from

\* a variant that never asks for two phases
needsTwoPhase_Never(renames) == FALSE

\* needsTwoPhase of applyRenames
needsTwoPhase(renames) ==
  LET fromSetLower == {toLowerCase(renames[i].from) : i \in 1..Len(renames)}
  IN \E i \in 1..Len(renames) : toLowerCase(renames[i].to) \in fromSetLower

\* the temp-name allocation loop of applyRenames over the renames that are
\* left, given the occupied set so far
RECURSIVE allocateTempsFrom(_, _, _)
allocateTempsFrom(w, renames, occupied) ==
  IF renames = <<>> THEN <<>>
  ELSE Once({<<tmp>> \o allocateTempsFrom(w, Tail(renames), occupied \cup {tmp}) :
             tmp \in {uniqueTempPath(w, Head(renames).from, occupied)}})

\* tempByFrom of applyRenames, as the sequence of temp names in rename order
allocateTemps(w, renames) ==
  allocateTempsFrom(w, renames,
    {renames[i].from : i \in 1..Len(renames)} \cup {renames[i].to : i \in 1..Len(renames)})

\* a variant that trims the content before it prepends the block
writeFrontmatter_Trimmed(content, frontmatter) ==
  IF hasFrontmatter(content) THEN content
  ELSE frontmatter \o <<"\n", "\n">> \o trim(stripBom(content))

\* writeFrontmatter: the new content of the file
writeFrontmatter(content, frontmatter) ==
  LET cleaned == stripBom(content)
      separator == IF startsWith(cleaned, <<"\n">>) THEN <<"\n">> ELSE <<"\n", "\n">>
  IN IF hasFrontmatter(content) THEN content
     ELSE frontmatter \o separator \o cleaned

\* options.authorOverride ?? options.authorRewrites[action.author] ?? action.author
applyAuthor(ao, action) ==
  IF ao.authorOverride # NULL THEN ao.authorOverride
  ELSE IF action.author \in DOMAIN ao.authorRewrites THEN ao.authorRewrites[action.author]
  ELSE action.author

\* the files after writing content to the file that relPath names
filesAfterWrite(files, ci, relPath, content) ==
  [files EXCEPT ![fileAt(files, ci, relPath)].content = content]

\* ------------------------------------------------------------------------
\* State
\* ------------------------------------------------------------------------

VARIABLES
  pc,        \* position of the run: which operation comes next
  w,         \* the working copy: files, ci, tracked, gitLog
  w0,        \* the working copy in the initial state
  opts,      \* the MigrationPlanOptions of the planMigration calls
  plan,      \* the MigrationPlan returned by the last planMigration call
  prevPlan,  \* the MigrationPlan returned by the call before it
  runs,      \* planMigration calls since the working copy last changed
  ap,        \* progress of runMigrationPlan
  nmBase,    \* naming: the base name handed to applyRenameCase
  nmMode,    \* naming: the RenameCaseMode in use
  nmOnce,    \* naming: applyRenameCase(nmBase, nmMode)
  nmTwice,   \* naming: applyRenameCase(nmOnce, nmMode)
  clPath,    \* classifier: the path handed to classifyDoc
  clRoot,    \* classifier: the docsRoot option handed to classifyDoc
  clDoc,     \* classifier: what classifyDoc returned
  max,       \* limiter: the number of calls that may run at once
  active,    \* limiter: the counter of createLimiter
  queue,     \* limiter: the calls that wait, in arrival order
  calls,     \* limiter: where each git call of the caller stands
  jobs,      \* limiter: the promise jobs that are due, in order
  callerRuns \* limiter: code of the caller is running

vars == <<pc, w, w0, opts, plan, prevPlan, runs, ap, nmBase, nmMode, nmOnce, nmTwice,
          clPath, clRoot, clDoc, max, active, queue, calls, jobs, callerRuns>>

limiterVars == <<max, active, queue, calls, jobs, callerRuns>>

namingVars == <<nmBase, nmMode, nmOnce, nmTwice, clPath, clRoot, clDoc>>

repoVars == <<w, w0, opts, plan, prevPlan, runs, ap>>

\* no plan yet
NoPlan == [made |-> FALSE, failed |-> FALSE, renames |-> <<>>, frontmatters |-> <<>>,
           references |-> <<>>, lookups |-> <<>>, trackedSet |-> {}]

\* runMigrationPlan not running
NotApplying == [temps |-> <<>>, i |-> 0, runs |-> 0]

DefaultOptions ==
  [docsRoot |-> <<"d", "o", "c", "s">>,
   ignoreGlobs |-> <<>>,
   moveRootMarkdownToDocs |-> TRUE,
   renameDocsToDatePrefix |-> TRUE,
   addFrontmatter |-> TRUE,
   renameCaseOverrides |-> <<>>,
   forceDatePrefixPaths |-> {},
   forceUndatedPaths |-> {},
   includeCanonicalRenames |-> TRUE,
   normalizeDatePrefixedDocs |-> TRUE,
   frontmatterDefaults |-> [author |-> NULL, tags |-> <<>>, titlePrefix |-> NULL],
   authorOverride |-> NULL,
   authorRewrites |-> <<>>]

EmptyWorkingCopy == [files |-> <<>>, ci |-> FALSE, tracked |-> {}, gitLog |-> <<>>]

\* classifyDoc not called
ClassifierIdle ==
  /\ clPath = <<>>
  /\ clRoot = <<"d", "o", "c", "s">>
  /\ clDoc = NULL

NamingIdle ==
  /\ nmBase = <<>>
  /\ nmMode = "lowercase"
  /\ nmOnce = NULL
  /\ nmTwice = NULL
  /\ ClassifierIdle

\* no git client yet
LimiterIdle ==
  /\ max = 1
  /\ active = 0
  /\ queue = <<>>
  /\ calls = <<>>
  /\ jobs = <<>>
  /\ callerRuns = FALSE

RepoIdle ==
  /\ w = EmptyWorkingCopy
  /\ w0 = EmptyWorkingCopy
  /\ opts = DefaultOptions
  /\ plan = NoPlan
  /\ prevPlan = NoPlan
  /\ runs = 0
  /\ ap = NotApplying

\* ------------------------------------------------------------------------
\* Naming rules as a state machine: one base name, re-cased once and twice
\* ------------------------------------------------------------------------

\* longest remainder (after the optional date token) of an enumerated name
MaxTail == 5

NameAlphabet == {"a", "B", "-", "_", " ", "!"}

NameDates == {<<>>, <<"2", "0", "2", "4", "-", "0", "6", "-", "0", "1">>}

\* a function over 1..n as a tuple
AsSeq(f) == [i \in 1..Len(f) |-> f[i]] \o <<>>

\* the remainders of at most longest characters
NameTails(longest) == UNION {{AsSeq(f) : f \in [1..n -> NameAlphabet]} : n \in 0..longest}

InitNaming ==
  /\ pc = "name"
  /\ nmBase \in {d \o t \o <<".", "m", "d">> : d \in NameDates, t \in NameTails(MaxTail)}
  /\ nmMode = "lowercase"
  /\ nmOnce = NULL
  /\ nmTwice = NULL
  /\ ClassifierIdle
  /\ RepoIdle
  /\ LimiterIdle

\* applyRenameCase applied to the name, and again to its own result
RenameCase(mode) ==
  /\ pc = "name"
  /\ pc' = "named"
  /\ nmMode' = mode
  /\ nmOnce' = applyRenameCase(nmBase, mode)
  /\ nmTwice' = applyRenameCase(applyRenameCase(nmBase, mode), mode)
  /\ UNCHANGED <<nmBase, clPath, clRoot, clDoc>>
  /\ UNCHANGED repoVars
  /\ UNCHANGED limiterVars

RenameLowercase == RenameCase("lowercase")

RenameCapitalized == RenameCase("capitalized")

NextNaming == RenameLowercase \/ RenameCapitalized

SpecNaming == InitNaming /\ [][NextNaming]_vars

\* ------------------------------------------------------------------------
\* Planning and applying as a state machine
\* ------------------------------------------------------------------------

\* most planMigration calls in a row on an unchanged working copy
MaxPlans == 2

\* most runMigrationPlan calls with one plan
MaxApplies == 2

\* a variant that carries out its first rename while it plans
PlanMigration_Moving ==
  /\ pc \in {"idle", "planned", "applied"}
  /\ runs < MaxPlans
  /\ \E p \in {planMigration(w, opts)} :
       /\ plan' = p
       /\ w' = IF p.renames = <<>> THEN w
               ELSE [w EXCEPT !.files =
                       filesAfterMove(w.files, w.ci, p.renames[1].from, p.renames[1].to)]
  /\ prevPlan' = plan
  /\ runs' = runs + 1
  /\ pc' = IF pc = "applied" THEN "applied" ELSE "planned"
  /\ UNCHANGED <<w0, opts, ap>>
  /\ UNCHANGED namingVars
  /\ UNCHANGED limiterVars

\* planMigration: reads the working copy, returns a plan or throws
PlanMigration ==
  /\ pc \in {"idle", "planned", "applied"}
  /\ runs < MaxPlans
  /\ plan' = planMigration(w, opts)
  /\ prevPlan' = plan
  /\ runs' = runs + 1
  /\ pc' = IF pc = "applied" THEN "applied" ELSE "planned"
  /\ UNCHANGED <<w, w0, opts, ap>>
  /\ UNCHANGED namingVars
  /\ UNCHANGED limiterVars

\* where runMigrationPlan continues after the frontmatter loop
afterFrontmatters ==
  IF plan.references # <<>> /\ plan.renames # <<>> THEN "references" ELSE "applied"

\* a variant that rewrites the references before it inserts frontmatter
afterRenames_ReferencesFirst ==
  IF plan.references # <<>> /\ plan.renames # <<>> THEN "references"
  ELSE IF plan.frontmatters # <<>> THEN "frontmatter" ELSE "applied"

\* where runMigrationPlan continues after applyRenames
afterRenames ==
  IF plan.frontmatters # <<>> THEN "frontmatter" ELSE afterFrontmatters

\* runMigrationPlan is called: the actions are split by type, applyRenames
\* decides between direct and two-phase moves and allocates the temp names
BeginApply ==
  /\ ~plan.failed
  /\ \E temps \in {IF needsTwoPhase(plan.renames)
                   THEN allocateTemps(w, plan.renames)
                   ELSE <<>>} :
       IF \E i \in 1..Len(temps) : temps[i] = NoTempPath
       THEN /\ pc' = "failed"
            /\ ap' = ap
       ELSE /\ ap' = [temps |-> temps, i |-> 1, runs |-> ap.runs + 1]
            /\ pc' = IF plan.renames = <<>> THEN afterRenames
                     ELSE IF temps # <<>> THEN "phase1" ELSE "direct"
  /\ prevPlan' = NoPlan
  /\ runs' = 0
  /\ UNCHANGED <<w, w0, opts, plan>>
  /\ UNCHANGED namingVars
  /\ UNCHANGED limiterVars

\* runMigrationPlan on the plan that planMigration returned
ApplyBegin ==
  /\ pc = "planned"
  /\ BeginApply

\* runMigrationPlan once more on a plan that has been applied
ApplyAgain ==
  /\ pc = "applied"
  /\ ap.runs < MaxApplies
  /\ BeginApply

\* a variant that goes on with the next move after a move that throws
MoveStep_Continues(here, from, to, next) ==
  /\ pc = here
  /\ \E r \in {move(w, from, to, plan.renames[ap.i].from \in plan.trackedSet)} :
       /\ w' = r.w
       /\ ap' = [ap EXCEPT !.i = IF ap.i < Len(plan.renames) THEN ap.i + 1 ELSE 1]
       /\ pc' = IF ap.i < Len(plan.renames) THEN here ELSE next
  /\ UNCHANGED <<w0, opts, plan, prevPlan, runs>>
  /\ UNCHANGED namingVars
  /\ UNCHANGED limiterVars

\* one move of applyRenames; a move that throws ends runMigrationPlan
MoveStep(here, from, to, next) ==
  /\ pc = here
  /\ \E r \in {move(w, from, to, plan.renames[ap.i].from \in plan.trackedSet)} :
       IF r.ok
       THEN /\ w' = r.w
            /\ ap' = [ap EXCEPT !.i = IF ap.i < Len(plan.renames) THEN ap.i + 1 ELSE 1]
            /\ pc' = IF ap.i < Len(plan.renames) THEN here ELSE next
       ELSE /\ w' = w
            /\ ap' = ap
            /\ pc' = "failed"
  /\ UNCHANGED <<w0, opts, plan, prevPlan, runs>>
  /\ UNCHANGED namingVars
  /\ UNCHANGED limiterVars

\* the direct loop: renames[i].from -> renames[i].to
MoveDirect ==
  /\ pc = "direct"
  /\ MoveStep("direct", plan.renames[ap.i].from, plan.renames[ap.i].to, afterRenames)

\* the first loop of the two-phase strategy: renames[i].from -> its temp name
MoveToTemp ==
  /\ pc = "phase1"
  /\ MoveStep("phase1", plan.renames[ap.i].from, ap.temps[ap.i], "phase2")

\* the second loop: the temp name -> renames[i].to
MoveFromTemp ==
  /\ pc = "phase2"
  /\ MoveStep("phase2", ap.temps[ap.i], plan.renames[ap.i].to, afterRenames)

\* the frontmatter built for plan.frontmatters[i]
frontmatterOf(i) ==
  buildDocFrontmatter(plan.frontmatters[i].title, applyAuthor(opts, plan.frontmatters[i]),
                      plan.frontmatters[i].date, plan.frontmatters[i].tags)

\* one iteration of the frontmatter loop: one writeFrontmatter call
InsertFrontmatter ==
  /\ pc = "frontmatter"
  /\ \E content \in {readFile(w.files, w.ci, plan.frontmatters[ap.i].path)} :
       IF content = NULL
       THEN /\ w' = w
            /\ ap' = ap
            /\ pc' = "failed"
       ELSE /\ w' = [w EXCEPT !.files =
                       filesAfterWrite(w.files, w.ci, plan.frontmatters[ap.i].path,
                                       writeFrontmatter(content, frontmatterOf(ap.i)))]
            /\ ap' = [ap EXCEPT !.i = IF ap.i < Len(plan.frontmatters) THEN ap.i + 1 ELSE 1]
            /\ pc' = IF ap.i < Len(plan.frontmatters) THEN "frontmatter" ELSE afterFrontmatters
  /\ UNCHANGED <<w0, opts, plan, prevPlan, runs>>
  /\ UNCHANGED namingVars
  /\ UNCHANGED limiterVars

\* one iteration of the reference loop: one file read and, when a reference
\* matches, rewritten
RewriteReferences ==
  /\ pc = "references"
  /\ \E content \in {readSmallTextFileForReferences(w, plan.references[ap.i].path)} :
       w' = IF content = NULL \/ content = <<>> THEN w
            ELSE [w EXCEPT !.files =
                    filesAfterWrite(w.files, w.ci, plan.references[ap.i].path,
                                    replaceMatches(content, buildReferenceReplacements(plan.renames)))]
  /\ ap' = [ap EXCEPT !.i = IF ap.i < Len(plan.references) THEN ap.i + 1 ELSE 1]
  /\ pc' = IF ap.i < Len(plan.references) THEN "references" ELSE "applied"
  /\ UNCHANGED <<w0, opts, plan, prevPlan, runs>>
  /\ UNCHANGED namingVars
  /\ UNCHANGED limiterVars

\* ------------------------------------------------------------------------
\* Repositories and options the runs start from
\* ------------------------------------------------------------------------

\* most files in a repository
MaxFiles == 2

RepoPaths ==
  { <<"r", "e", "a", "d", "m", "e", ".", "m", "d">>, <<"a", "-", "b", ".", "m", "d">>,
    <<"d", "o", "c", "s", "/", "r", "e", "a", "d", "m", "e", ".", "m", "d">>, <<"d", "o", "c", "s", "/", "R", "E", "A", "D", "M", "E", ".", "m", "d">>,
    <<"d", "o", "c", "s", "/", "a", "-", "b", ".", "m", "d">>, <<"d", "o", "c", "s", "/", "a", "_", "b", ".", "m", "d">>,
    <<"d", "o", "c", "s", "/", "2", "0", "2", "4", "-", "0", "1", "-", "1", "5", "-", "a", "-", "b", ".", "m", "d">>, <<"d", "o", "c", "s", "/", "2", "0", "2", "4", "-", "0", "1", "-", "1", "5", "_", "a", "-", "b", ".", "m", "d">> }

\* a file without frontmatter; its text mentions docs/a-b.md
PlainContent == <<"d", "o", "c", "s", "/", "a", "-", "b", ".", "m", "d", "\n">>

\* a file with a frontmatter block
FrontmatterContent == <<"-", "-", "-", "\n", "t", "\n", "-", "-", "-", "\n", "x", "\n">>

\* date of the first commit of every tracked file, birth time of every file
CommitDate == <<"2", "0", "2", "4", "-", "0", "1", "-", "1", "5">>

BirthDate == <<"2", "0", "2", "4", "-", "0", "2", "-", "2", "0">>

CommitAuthor == <<"A", " ", "<", "a", "@", "b", ".", "c", ">">>

\* the sets of paths that can be the files of one directory tree
TreesOf(paths, ci) ==
  {S \in SUBSET paths :
     /\ S # {}
     /\ Cardinality(S) <= MaxFiles
     /\ \A p, q \in S : fsKey(ci, p) = fsKey(ci, q) => p = q}

\* the files of a tree: at most one of them has frontmatter
ContentsOf(S) ==
  {[p \in S |-> IF p = withBlock THEN FrontmatterContent ELSE PlainContent] :
     withBlock \in S \cup {NULL}}

\* a working copy: every file committed (tracked) or none of them
WorkingCopy(contentOf, ci, tracked) ==
  [files |-> [p \in DOMAIN contentOf |-> [content |-> contentOf[p], birth |-> BirthDate]],
   ci |-> ci,
   tracked |-> IF tracked THEN DOMAIN contentOf ELSE {},
   gitLog |-> IF tracked
              THEN [p \in DOMAIN contentOf |-> [date |-> CommitDate, author |-> CommitAuthor]]
              ELSE <<>>]

WorkingCopies(paths, ci, tracked) ==
  {WorkingCopy(contentOf, ci, tracked) :
     contentOf \in UNION {ContentsOf(S) : S \in TreesOf(paths, ci)}}

\* the boolean switches of MigrationPlanOptions
WithFlags(o, flags) ==
  [o EXCEPT !.moveRootMarkdownToDocs = flags[1],
            !.renameDocsToDatePrefix = flags[2],
            !.addFrontmatter = flags[3],
            !.includeCanonicalRenames = flags[4],
            !.normalizeDatePrefixedDocs = flags[5]]

AllFlags == [1..5 -> BOOLEAN]

\* the flag settings with at most one switch off
FewFlags == {f \in AllFlags : Cardinality({i \in 1..5 : ~f[i]}) <= 1}

\* the per-path options of one path: a naming-mode override, a forced date
\* prefix, a forced undated name, or several of them
WithPathOptions(o, p, mode, forceDate, forceUndated) ==
  [o EXCEPT !.renameCaseOverrides = IF mode = "none" THEN <<>> ELSE [q \in {p} |-> mode],
            !.forceDatePrefixPaths = IF forceDate THEN {p} ELSE {},
            !.forceUndatedPaths = IF forceUndated THEN {p} ELSE {}]

\* one per-path option on p
OnePathOption(o, p) ==
  { WithPathOptions(o, p, "lowercase", FALSE, FALSE),
    WithPathOptions(o, p, "capitalized", FALSE, FALSE),
    WithPathOptions(o, p, "none", TRUE, FALSE),
    WithPathOptions(o, p, "none", FALSE, TRUE),
    WithPathOptions(o, p, "none", TRUE, TRUE) }

\* every combination of per-path options on p
AllPathOptions(o, p) ==
  {WithPathOptions(o, p, mode, fd, fu) :
     mode \in {"none", "lowercase", "capitalized"}, fd \in BOOLEAN, fu \in BOOLEAN}

\* the dated docs are ignored
IgnoringDated == [DefaultOptions EXCEPT !.ignoreGlobs = <<<<"d", "o", "c", "s", "/", "2", "0", "2", "4", "-", "*">>>>]

\* options for a repository: few switches off, the dated docs ignored, or
\* one per-path option on one file
OptionsFor(wc) ==
  {WithFlags(DefaultOptions, f) : f \in FewFlags}
  \cup {IgnoringDated}
  \cup UNION {OnePathOption(DefaultOptions, p) : p \in DOMAIN wc.files}

\* every combination of the switches and of the per-path options on p
AllOptionsOn(p) ==
  UNION {AllPathOptions(WithFlags(DefaultOptions, f), p) : f \in AllFlags}

ReadmePaths == {<<"d", "o", "c", "s", "/", "r", "e", "a", "d", "m", "e", ".", "m", "d">>, <<"d", "o", "c", "s", "/", "R", "E", "A", "D", "M", "E", ".", "m", "d">>}

\* nothing planned, nothing applied
Fresh ==
  /\ pc = "idle"
  /\ w0 = w
  /\ plan = NoPlan
  /\ prevPlan = NoPlan
  /\ runs = 0
  /\ ap = NotApplying
  /\ NamingIdle
  /\ LimiterIdle

\* plan, apply, plan again: any repository, on a case-sensitive or a
\* case-insensitive file system, committed or not, few switches off
Init ==
  /\ w \in WorkingCopies(RepoPaths, FALSE, TRUE)
           \cup WorkingCopies(RepoPaths, TRUE, TRUE)
           \cup WorkingCopies(RepoPaths, FALSE, FALSE)
  /\ opts \in {WithFlags(DefaultOptions, f) : f \in FewFlags}
  /\ Fresh

Next ==
  \/ PlanMigration
  \/ ApplyBegin
  \/ MoveDirect
  \/ MoveToTemp
  \/ MoveFromTemp
  \/ InsertFrontmatter
  \/ RewriteReferences

Spec == Init /\ [][Next]_vars

\* planning only: any committed repository with few switches off or one
\* per-path option, and the readme repositories with every option combination
InitPlan ==
  /\ \/ /\ w \in WorkingCopies(RepoPaths, FALSE, TRUE)
        /\ opts \in OptionsFor(w)
     \/ /\ w \in WorkingCopies(ReadmePaths, FALSE, TRUE)
        /\ opts \in AllOptionsOn(<<"d", "o", "c", "s", "/", "r", "e", "a", "d", "m", "e", ".", "m", "d">>)
  /\ Fresh

NextPlan == PlanMigration

SpecPlan == InitPlan /\ [][NextPlan]_vars

\* ------------------------------------------------------------------------
\* applyRenames on rename sets of any shape
\* ------------------------------------------------------------------------

\* most renames in a rename set
MaxRenames == 2

ApplyPaths == {<<"a", ".", "m", "d">>, <<"b", ".", "m", "d">>, <<"c", ".", "m", "d">>, <<"A", ".", "m", "d">>}

\* a working copy in which the content of every file is its own first path
Labelled(S, ci, tracked) == WorkingCopy([p \in S |-> p], ci, tracked)

\* the rename sets that a plan for the files S can hold: distinct sources,
\* destinations that differ as files, none of them a file that stays
RenameSets(S, ci) ==
  {AsSeq(r) : r \in
     {r \in UNION {[1..n -> [from : S, to : ApplyPaths]] : n \in 1..MaxRenames} :
        /\ \A i \in DOMAIN r : r[i].from # r[i].to
        /\ \A i, j \in DOMAIN r :
             i # j => /\ r[i].from # r[j].from
                      /\ fsKey(ci, r[i].to) # fsKey(ci, r[j].to)
        /\ \A i \in DOMAIN r : \A q \in S \ {r[j].from : j \in DOMAIN r} :
             fsKey(ci, r[i].to) # fsKey(ci, q)}}

PlanOfRenames(renames, tracked) ==
  [made |-> TRUE, failed |-> FALSE, renames |-> renames, frontmatters |-> <<>>,
   references |-> <<>>, lookups |-> <<>>, trackedSet |-> tracked]

InitApply ==
  /\ pc = "planned"
  /\ \E ci \in BOOLEAN, tracked \in BOOLEAN :
       \E S \in TreesOf(ApplyPaths, ci) :
         /\ w = Labelled(S, ci, tracked)
         /\ \E renames \in RenameSets(S, ci) : plan = PlanOfRenames(renames, w.tracked)
  /\ w0 = w
  /\ opts = DefaultOptions
  /\ prevPlan = NoPlan
  /\ runs = 0
  /\ ap = NotApplying
  /\ NamingIdle
  /\ LimiterIdle

NextApply ==
  \/ ApplyBegin
  \/ MoveDirect
  \/ MoveToTemp
  \/ MoveFromTemp

SpecApply == InitApply /\ [][NextApply]_vars

\* ------------------------------------------------------------------------
\* runMigrationPlan with one frontmatter action on files of any shape
\* ------------------------------------------------------------------------

\* most lines of an enumerated file
MaxLines == 3

LineTexts == {<<"-", "-", "-">>, <<"k">>, <<>>}

LineEnds == {<<"\n">>, <<"\r", "\n">>, <<>>}

\* the texts of at most n lines
RECURSIVE TextsOf(_)
TextsOf(n) ==
  IF n = 0 THEN {<<>>}
  ELSE {<<>>} \cup {text \o end \o rest :
                     text \in LineTexts, end \in LineEnds, rest \in TextsOf(n - 1)}

\* the same texts, and each of them behind a byte order mark
FileTexts == TextsOf(MaxLines) \cup {<<BOM>> \o t : t \in TextsOf(MaxLines)}

FrontmatterPath == <<"d", "o", "c", "s", "/", "2", "0", "2", "4", "-", "0", "1", "-", "1", "5", "-", "a", ".", "m", "d">>

\* a plan whose one action inserts frontmatter into FrontmatterPath
PlanOfFrontmatter ==
  [made |-> TRUE, failed |-> FALSE, renames |-> <<>>,
   frontmatters |-> <<[path |-> FrontmatterPath, title |-> <<"A">>, author |-> CommitAuthor,
                       date |-> CommitDate, tags |-> <<>>]>>,
   references |-> <<>>, lookups |-> <<>>, trackedSet |-> {FrontmatterPath}]

InitFrontmatter ==
  /\ pc = "planned"
  /\ w \in {WorkingCopy([p \in {FrontmatterPath} |-> text], FALSE, TRUE) : text \in FileTexts}
  /\ w0 = w
  /\ opts = DefaultOptions
  /\ plan = PlanOfFrontmatter
  /\ prevPlan = NoPlan
  /\ runs = 0
  /\ ap = NotApplying
  /\ NamingIdle
  /\ LimiterIdle

NextFrontmatter ==
  \/ ApplyBegin
  \/ InsertFrontmatter
  \/ ApplyAgain

SpecFrontmatter == InitFrontmatter /\ [][NextFrontmatter]_vars

\* ------------------------------------------------------------------------
\* The git client's limiter as a state machine (git.ts)
\* ------------------------------------------------------------------------
\* The caller's program and the promise jobs run one at a time.  A call of
\* a client method goes through the method, run and the function that
\* createLimiter returns, down to execGit, and its result comes back up one
\* promise job per await.  Jobs run in the order in which they became due,
\* and an event of a child process is handled only when no job is due.

\* most git calls of one run
MaxCalls == 4

\* largest maxConcurrency a client is created with
MaxConcurrency == 2

CallIds == 1..MaxCalls

\* the calls whose child process is running
inFlight == {id \in DOMAIN calls : calls[id] = "spawned"}

\* a job that is due for call id
Job(kind, id) == [kind |-> kind, id |-> id]

\* createGitClient, createLimiter: max = Math.max(1, concurrency); the
\* program of the caller is running
InitLimiter ==
  /\ pc = "git"
  /\ max \in {IF n < 1 THEN 1 ELSE n : n \in 0..MaxConcurrency}
  /\ active = 0
  /\ queue = <<>>
  /\ calls = [id \in CallIds |-> "new"]
  /\ jobs = <<>>
  /\ callerRuns = TRUE
  /\ RepoIdle
  /\ NamingIdle

\* active++ and fn(): execGit calls spawn.  The child process starts, or
\* spawn throws inside the promise executor and the await of execGit is due
\* with the rejection
Enter(id, due) ==
  /\ active' = active + 1
  /\ \/ /\ calls' = [calls EXCEPT ![id] = "spawned"]
        /\ jobs' = due
     \/ /\ calls' = [calls EXCEPT ![id] = "settled"]
        /\ jobs' = Append(due, Job("execGit", id))

\* the caller calls a client method: the limiter runs up to its first await
Call ==
  /\ pc = "git"
  /\ callerRuns
  /\ \E id \in CallIds :
       /\ calls[id] = "new"
       /\ \A other \in CallIds : other < id => calls[other] # "new"
       /\ IF active >= max
          THEN /\ queue' = Append(queue, id)
               /\ calls' = [calls EXCEPT ![id] = "waiting"]
               /\ UNCHANGED <<active, jobs>>
          ELSE /\ Enter(id, jobs)
               /\ UNCHANGED queue
  /\ UNCHANGED <<pc, max, callerRuns>>
  /\ UNCHANGED <<namingVars, repoVars>>

\* the code of the caller that is running comes to its end
Return ==
  /\ pc = "git"
  /\ callerRuns
  /\ callerRuns' = FALSE
  /\ UNCHANGED <<pc, max, active, queue, calls, jobs>>
  /\ UNCHANGED <<namingVars, repoVars>>

\* a timer or an I/O callback of the caller starts to run
Callback ==
  /\ pc = "git"
  /\ ~callerRuns
  /\ jobs = <<>>
  /\ \E id \in CallIds : calls[id] = "new"
  /\ callerRuns' = TRUE
  /\ UNCHANGED <<pc, max, active, queue, calls, jobs>>
  /\ UNCHANGED <<namingVars, repoVars>>

\* the close or error event of a child process: execGit's promise settles
ChildCloses ==
  /\ pc = "git"
  /\ ~callerRuns
  /\ jobs = <<>>
  /\ \E id \in inFlight :
       /\ calls' = [calls EXCEPT ![id] = "settled"]
       /\ jobs' = <<Job("execGit", id)>>
  /\ UNCHANGED <<pc, max, active, queue, callerRuns>>
  /\ UNCHANGED <<namingVars, repoVars>>

\* the job that runs next is of this kind
Due(kind) ==
  /\ pc = "git"
  /\ ~callerRuns
  /\ jobs # <<>>
  /\ Head(jobs).kind = kind

\* execGit continues after its await and returns or throws: the await of the
\* limiter is due
ExecGitReturns ==
  /\ Due("execGit")
  /\ jobs' = Append(Tail(jobs), Job("limiter", Head(jobs).id))
  /\ UNCHANGED <<pc, max, active, queue, calls, callerRuns>>
  /\ UNCHANGED <<namingVars, repoVars>>

\* a variant whose finally block does not call wakeNext
LimiterReturns_Silent ==
  /\ Due("limiter")
  /\ active' = active - 1
  /\ jobs' = Append(Tail(jobs), Job("run", Head(jobs).id))
  /\ UNCHANGED <<queue, calls>>
  /\ UNCHANGED <<pc, max, callerRuns>>
  /\ UNCHANGED <<namingVars, repoVars>>

\* the limiter continues after await fn(): finally, active--, wakeNext (with
\* a free slot the first waiter's promise is resolved, and the waiter is
\* due); then the await of run is due
LimiterReturns ==
  /\ Due("limiter")
  /\ active' = active - 1
  /\ IF active - 1 < max /\ queue # <<>>
     THEN /\ queue' = Tail(queue)
          /\ calls' = [calls EXCEPT ![Head(queue)] = "woken"]
          /\ jobs' = Tail(jobs) \o <<Job("waiter", Head(queue)), Job("run", Head(jobs).id)>>
     ELSE /\ jobs' = Append(Tail(jobs), Job("run", Head(jobs).id))
          /\ UNCHANGED <<queue, calls>>
  /\ UNCHANGED <<pc, max, callerRuns>>
  /\ UNCHANGED <<namingVars, repoVars>>

\* a woken waiter continues after its await: active++ and fn()
WaiterResumes ==
  /\ Due("waiter")
  /\ Enter(Head(jobs).id, Tail(jobs))
  /\ UNCHANGED <<pc, max, queue, callerRuns>>
  /\ UNCHANGED <<namingVars, repoVars>>

\* run continues after await limit(...): the await of the client method is due
RunReturns ==
  /\ Due("run")
  /\ jobs' = Append(Tail(jobs), Job("method", Head(jobs).id))
  /\ UNCHANGED <<pc, max, active, queue, calls, callerRuns>>
  /\ UNCHANGED <<namingVars, repoVars>>

\* the client method continues after await run(...): the await of the caller
\* is due
MethodReturns ==
  /\ Due("method")
  /\ jobs' = Append(Tail(jobs), Job("caller", Head(jobs).id))
  /\ UNCHANGED <<pc, max, active, queue, calls, callerRuns>>
  /\ UNCHANGED <<namingVars, repoVars>>

\* the caller continues after its await of the client method
CallerResumes ==
  /\ Due("caller")
  /\ jobs' = Tail(jobs)
  /\ calls' = [calls EXCEPT ![Head(jobs).id] = "done"]
  /\ callerRuns' = TRUE
  /\ UNCHANGED <<pc, max, active, queue>>
  /\ UNCHANGED <<namingVars, repoVars>>

NextLimiter ==
  \/ Call
  \/ Return
  \/ Callback
  \/ ChildCloses
  \/ ExecGitReturns
  \/ LimiterReturns
  \/ WaiterResumes
  \/ RunReturns
  \/ MethodReturns
  \/ CallerResumes

SpecLimiter == InitLimiter /\ [][NextLimiter]_vars

\* ------------------------------------------------------------------------
\* Properties
\* ------------------------------------------------------------------------

\* the stem of the enumerated name starts with a date token that is followed
\* by the end of the stem or by one of the separators dash, underscore, space
DateTokenLeads ==
  LET stem == splitMarkdownBaseName(nmBase).stem
  IN startsWithDate(stem) /\ (Len(stem) = 10 \/ stem[11] \in {"-", "_", " "})

\* the stem of the re-cased name after its date token and the dash
RecasedRemainder == sliceFrom(splitMarkdownBaseName(nmOnce).stem, 12)

\* C5: applyRenameCase is idempotent in both modes: re-casing a re-cased name
\* returns it unchanged, also when characters of the stem are stripped and
\* when nothing follows the date prefix.
C5_Idempotent == pc = "named" => nmTwice = nmOnce

\* C8: for a name whose stem starts with a date token followed by the end of
\* the stem or a separator, applyRenameCase returns a name that starts with
\* the same date token and exactly one dash; only the remainder is re-cased:
\* in capitalized mode it has no dash and no lowercase letter, in lowercase
\* mode no underscore and no uppercase letter.
C8_DateTokenKept ==
  (pc = "named" /\ DateTokenLeads) =>
    /\ Len(nmOnce) >= 12
    /\ SubSeq(nmOnce, 1, 10) = SubSeq(nmBase, 1, 10)
    /\ nmOnce[11] = "-"
    /\ nmOnce[12] # "-"
    /\ \A i \in 1..Len(RecasedRemainder) :
         IF nmMode = "capitalized"
         THEN RecasedRemainder[i] \notin LowerSet \cup {"-"}
         ELSE RecasedRemainder[i] \notin UpperSet \cup {"_"}

\* C8 happens: a dated name with dashes in its remainder, re-cased in
\* capitalized mode to a remainder with an underscore
C8_Witness ==
  /\ pc = "named"
  /\ DateTokenLeads
  /\ nmMode = "capitalized"
  /\ \E i \in 12..Len(nmBase) : nmBase[i] = "-"
  /\ \E i \in 1..Len(RecasedRemainder) : RecasedRemainder[i] = "_"

\* the rename of the plan whose source is filePath, as a set of at most one
RenamesFrom(filePath) ==
  {plan.renames[i] : i \in {j \in 1..Len(plan.renames) : plan.renames[j].from = filePath}}

RenameSources == {plan.renames[i].from : i \in 1..Len(plan.renames)}

RenameTargets == {plan.renames[i].to : i \in 1..Len(plan.renames)}

\* planMigration has returned a plan for the working copy as it is
Planned == pc = "planned" /\ plan.made /\ ~plan.failed

\* C1: in every plan that planMigration returns the rename actions have
\* pairwise distinct from paths and pairwise distinct to paths, and no rename
\* has from = to.
C1_DistinctRenames ==
  Planned =>
    \A i, j \in 1..Len(plan.renames) :
      /\ plan.renames[i].from # plan.renames[i].to
      /\ i # j => /\ plan.renames[i].from # plan.renames[j].from
                  /\ plan.renames[i].to # plan.renames[j].to

\* C1 happens: two files whose preferred target is the same path are both
\* renamed, one of them to the suffixed path
C1_Witness ==
  /\ Planned
  /\ {<<"d", "o", "c", "s", "/", "a", "-", "b", ".", "m", "d">>, <<"d", "o", "c", "s", "/", "a", "_", "b", ".", "m", "d">>} \subseteq RenameSources
  /\ RenameTargets = {<<"d", "o", "c", "s", "/", "2", "0", "2", "4", "-", "0", "1", "-", "1", "5", "-", "a", "-", "b", ".", "m", "d">>, <<"d", "o", "c", "s", "/", "2", "0", "2", "4", "-", "0", "1", "-", "1", "5", "-", "a", "-", "b", "-", "2", ".", "m", "d">>}

ReadmeInDocs == <<"d", "o", "c", "s", "/", "r", "e", "a", "d", "m", "e", ".", "m", "d">>

\* the plan renames docs/readme.md to README.md in the same directory
ReadmeCapitalized ==
  RenamesFrom(ReadmeInDocs) = {[from |-> ReadmeInDocs, to |-> <<"d", "o", "c", "s", "/", "R", "E", "A", "D", "M", "E", ".", "m", "d">>]}

\* no target of docs/readme.md carries a date prefix
ReadmeUndated ==
  \A r \in RenamesFrom(ReadmeInDocs) : extractDatePrefix(basename(r.to)) = NULL

FilesEndingAt(relPath) ==
  {f \in DOMAIN w.files : renamedPath(plan.renames, f) = relPath}

\* C10: every frontmatter action of a plan has a path, the final path of its
\* file after the renames, whose base name carries a date prefix, has that
\* prefix as its date, and is about a file whose content had no frontmatter
\* block when the plan was computed.
C10_FrontmatterOnlyWhereMissing ==
  Planned =>
    \A i \in 1..Len(plan.frontmatters) :
      LET action == plan.frontmatters[i]
      IN /\ extractDatePrefix(basename(action.path)) # NULL
         /\ action.date = extractDatePrefix(basename(action.path))
         /\ FilesEndingAt(action.path) # {}
         /\ \A f \in FilesEndingAt(action.path) :
              ~parseFrontmatterBlock(w.files[f].content).hasFrontmatter

\* some destination is, ignoring case, a source: the rename set holds a
\* cycle, a chain or a case-only rename
RenamesOverlap ==
  \E i, j \in 1..Len(plan.renames) :
    toLowerCase(plan.renames[i].to) = toLowerCase(plan.renames[j].from)

\* C3: on a case-sensitive and on a case-insensitive file system, when
\* runMigrationPlan completes on a rename set with a cycle, a chain or a
\* case-only rename, every to path holds the content that its from path held
\* before, and no content has been lost or duplicated: the files are the
\* files of before, each at its final path.
C3_ContentFollowsRenames ==
  (pc = "applied" /\ RenamesOverlap) =>
    /\ DOMAIN w.files = {renamedPath(plan.renames, f) : f \in DOMAIN w0.files}
    /\ \A f \in DOMAIN w0.files :
         w.files[renamedPath(plan.renames, f)].content = w0.files[f].content

\* C3 happens: a cycle of two files has been applied on a case-insensitive
\* file system
C3_Witness ==
  /\ pc = "applied"
  /\ w.ci
  /\ \E i, j \in 1..Len(plan.renames) :
       /\ i # j
       /\ plan.renames[i].to = plan.renames[j].from
       /\ plan.renames[j].to = plan.renames[i].from

\* C4: after planMigration with default options and runMigrationPlan on the
\* whole plan, the next planMigration on the resulting repository returns no
\* action: no rename, no frontmatter insert, no reference update.
C4_FixedPoint ==
  (pc = "applied" /\ runs >= 1 /\ opts = DefaultOptions) =>
    /\ ~plan.failed
    /\ plan.renames = <<>>
    /\ plan.frontmatters = <<>>
    /\ plan.references = <<>>

\* the content of the file that the frontmatter action in turn is about
TargetContent == readFile(w.files, w.ci, plan.frontmatters[ap.i].path)

\* C9: a frontmatter action whose target file begins, at apply time, with a
\* frontmatter fence block leaves the content of the file unchanged; hence a
\* second run of the same action changes nothing after the first.
C9_NoSecondBlock ==
  [][(pc = "frontmatter" /\ TargetContent # NULL
        /\ (parseFrontmatterBlock(TargetContent).hasFrontmatter \/ ap.runs >= 2))
     => w'.files = w.files]_vars

\* the second half of C9 alone: the second run of the same frontmatter action
\* changes nothing
SecondRunChangesNothing ==
  [][(pc = "frontmatter" /\ ap.runs >= 2) => w'.files = w.files]_vars

\* ------------------------------------------------------------------------
\* Planning with default options, git log failing for some paths
\* ------------------------------------------------------------------------

\* the working copy in which git log exits with an error for the paths of
\* failing
WithFailingLog(wc, failing) ==
  [wc EXCEPT !.gitLog = [p \in DOMAIN wc.gitLog |->
                           IF p \in failing THEN GitFails ELSE wc.gitLog[p]]]

\* the tracked paths for which git log fails
FailingLogs == {p \in DOMAIN w.gitLog : w.gitLog[p] = GitFails}

\* a doc in the docs root whose stem is a date and nothing else
DateOnlyPath == <<"d", "o", "c", "s", "/", "2", "0", "2", "4", "-", "0", "6", "-", "0", "1", ".", "m", "d">>

\* any committed repository, with or without the date-only doc, git log
\* failing for some of its files, default options
InitDefaults ==
  /\ \E wc \in WorkingCopies(RepoPaths \cup {DateOnlyPath}, FALSE, TRUE) :
       w \in {WithFailingLog(wc, failing) : failing \in SUBSET DOMAIN wc.files}
  /\ opts = DefaultOptions
  /\ Fresh

NextDefaults == PlanMigration

SpecDefaults == InitDefaults /\ [][NextDefaults]_vars

\* ------------------------------------------------------------------------
\* Plan and apply on repositories with a file that mentions the docs
\* ------------------------------------------------------------------------

\* most mentions of a path in the text of the file
MaxMentions == 2

\* the docs that can be there: two root files with the same target and a
\* file in the docs root
MentionedPaths == {<<"a", "_", "b", ".", "m", "d">>, <<"a", "-", "b", ".", "m", "d">>, <<"d", "o", "c", "s", "/", "r", "e", "a", "d", "m", "e", ".", "m", "d">>}

\* the file whose text mentions them; it is no candidate for a rename
NotesPath == <<"n", "o", "t", "e", "s", ".", "t", "x", "t">>

\* the content of every doc
DocContent == <<"#", " ", "T", "\n">>

\* the forms in which a text mentions a path
MentionPrefixes == {<<>>, <<".", "/">>, <<".", ".", "/">>}

\* one line per mention
Mentions(S) == {prefix \o p \o <<"\n">> : prefix \in MentionPrefixes, p \in S}

\* the texts of n mentions of paths of S
RECURSIVE MentionTexts(_, _)
MentionTexts(S, n) ==
  IF n = 0 THEN {<<>>}
  ELSE {m \o rest : m \in Mentions(S), rest \in MentionTexts(S, n - 1)}

\* the docs of S and the notes file with one of the texts
NotesRepos(S) ==
  {[p \in S \cup {NotesPath} |-> IF p = NotesPath THEN text ELSE DocContent] :
     text \in UNION {MentionTexts(S, n) : n \in 1..MaxMentions}}

InitReferences ==
  /\ \E tracked \in BOOLEAN :
       w \in {WorkingCopy(contentOf, FALSE, tracked) :
                contentOf \in UNION {NotesRepos(S) : S \in TreesOf(MentionedPaths, FALSE)}}
  /\ opts = DefaultOptions
  /\ Fresh

\* the first planMigration call
PlanFirst ==
  /\ pc = "idle"
  /\ PlanMigration

NextReferences ==
  \/ PlanFirst
  \/ ApplyBegin
  \/ MoveDirect
  \/ MoveToTemp
  \/ MoveFromTemp
  \/ InsertFrontmatter
  \/ RewriteReferences

SpecReferences == InitReferences /\ [][NextReferences]_vars

\* ------------------------------------------------------------------------
\* runMigrationPlan on a working copy that has changed since the plan
\* ------------------------------------------------------------------------

\* the working copy without the file at path gone
WithoutFile(wc, gone) ==
  [wc EXCEPT !.files = [q \in DOMAIN wc.files \ {gone} |-> wc.files[q]]]

\* a plan for a repository, committed or not, made with default options; by
\* the time runMigrationPlan is called one of the files may have been deleted
InitStale ==
  /\ pc = "planned"
  /\ w0 \in WorkingCopies(RepoPaths, FALSE, TRUE) \cup WorkingCopies(RepoPaths, FALSE, FALSE)
  /\ opts = DefaultOptions
  /\ plan = planMigration(w0, opts)
  /\ ~plan.failed
  /\ w \in {w0} \cup {WithoutFile(w0, gone) : gone \in DOMAIN w0.files}
  /\ prevPlan = NoPlan
  /\ runs = 0
  /\ ap = NotApplying
  /\ NamingIdle
  /\ LimiterIdle

NextStale ==
  \/ ApplyBegin
  \/ MoveDirect
  \/ MoveToTemp
  \/ MoveFromTemp
  \/ InsertFrontmatter
  \/ RewriteReferences

SpecStale == InitStale /\ [][NextStale]_vars

\* ------------------------------------------------------------------------
\* classifyDoc on paths and docsRoot options of any shape
\* ------------------------------------------------------------------------

ClassifiedDirs == {<<>>, <<"d", "o", "c", "s", "/">>, <<"d", "o", "c", "s", "/", "s", "u", "b", "/">>, <<"d", "o", "c", "/">>, <<"d", "o", "c", "u", "m", "e", "n", "t", "s", "/">>, <<"s", "r", "c", "/">>, <<".", "/">>}

ClassifiedNames ==
  {<<"R", "E", "A", "D", "M", "E", ".", "m", "d">>, <<"r", "e", "a", "d", "m", "e", ".", "m", "d">>, <<"R", "e", "a", "d", "m", "e", ".", "m", "d">>, <<"N", "O", "T", "E", "S", ".", "m", "d">>, <<"N", "o", "t", "e", "s", ".", "m", "d">>, <<"a", "-", "b", ".", "m", "d">>, <<"R", "F", "C", "-", "1", "2", ".", "m", "d">>,
   <<"2", "0", "2", "4", "-", "0", "6", "-", "0", "1", "-", "a", ".", "m", "d">>, <<"2", "0", "2", "4", "-", "0", "6", "-", "0", "1", "-", "R", "E", "A", "D", "M", "E", ".", "m", "d">>, <<"2", "0", "2", "4", "-", "0", "6", "-", "0", "1", ".", "m", "d">>, <<"2", "0", "2", "4", "0", "6", "0", "1", "-", "a", ".", "m", "d">>, <<"A", "1", ".", "M", "D", "X">>,
   <<"n", "o", "t", "e", "s", ".", "t", "x", "t">>}

\* docsRoot as the caller may write it
ClassifiedRoots == {<<"d", "o", "c", "s">>, <<"d", "o", "c", "s", "/">>, <<".", "/", "d", "o", "c", "s">>, <<".", "/", "/", "d", "o", "c", "s", "/", "/">>, <<>>, <<".">>, <<".", "/">>, <<"d", "o", "c">>, <<"d", "o", "c", "s", "/", "s", "u", "b">>, <<"d", "o", "c", "s", "\\", "s", "u", "b">>, <<"s", "r", "c">>}

\* what classifyDoc leaves when it throws
NotMarkdown == [thrown |-> TRUE]

InitClassify ==
  /\ pc = "classify"
  /\ clPath \in {d \o n : d \in ClassifiedDirs, n \in ClassifiedNames}
  /\ clRoot \in ClassifiedRoots
  /\ clDoc = NULL
  /\ nmBase = <<>>
  /\ nmMode = "lowercase"
  /\ nmOnce = NULL
  /\ nmTwice = NULL
  /\ RepoIdle
  /\ LimiterIdle

\* classifyDoc(clPath, { docsRoot: clRoot })
ClassifyDoc ==
  /\ pc = "classify"
  /\ pc' = "classified"
  /\ clDoc' = IF ~isMarkdownFile(basename(clPath)) THEN NotMarkdown
              ELSE classifyDoc(clPath, normalizeDocsRoot(clRoot))
  /\ UNCHANGED <<clPath, clRoot, nmBase, nmMode, nmOnce, nmTwice>>
  /\ UNCHANGED repoVars
  /\ UNCHANGED limiterVars

NextClassify == ClassifyDoc

SpecClassify == InitClassify /\ [][NextClassify]_vars

\* ------------------------------------------------------------------------
\* planMigration on repositories with root files of every kind of name
\* ------------------------------------------------------------------------

RootPaths ==
  {<<"N", "O", "T", "E", "S", ".", "m", "d">>, <<"N", "o", "t", "e", "s", ".", "m", "d">>, <<"n", "o", "t", "e", "s", ".", "m", "d">>, <<"R", "E", "A", "D", "M", "E", ".", "m", "d">>, <<"2", "0", "2", "4", "-", "0", "1", "-", "1", "5", "-", "N", "o", "t", "e", "s", ".", "m", "d">>, <<"d", "o", "c", "s", "/", "N", "O", "T", "E", "S", ".", "m", "d">>}

\* the root files that root-level discovery leaves out
UnlistedRootFiles == {<<"N", "O", "T", "E", "S", ".", "m", "d">>, <<"N", "o", "t", "e", "s", ".", "m", "d">>}

\* any committed repository, on a case-sensitive or a case-insensitive file
\* system, with few switches off or one per-path option, or a repository of
\* all-caps and mixed-case names with every option combination on a root
\* file that discovery leaves out
InitRoot ==
  /\ \/ /\ w \in WorkingCopies(RootPaths, FALSE, TRUE) \cup WorkingCopies(RootPaths, TRUE, TRUE)
        /\ opts \in OptionsFor(w)
     \/ /\ w \in WorkingCopies(UnlistedRootFiles \cup {<<"d", "o", "c", "s", "/", "N", "O", "T", "E", "S", ".", "m", "d">>}, FALSE, TRUE)
        /\ \E p \in UnlistedRootFiles \cap DOMAIN w.files : opts \in AllOptionsOn(p)
  /\ Fresh

NextRoot == PlanMigration

SpecRoot == InitRoot /\ [][NextRoot]_vars

\* ------------------------------------------------------------------------
\* planMigration and runMigrationPlan on names that differ in case only
\* ------------------------------------------------------------------------

CasePaths ==
  {<<"a", "-", "b", ".", "m", "d">>, <<"d", "o", "c", "s", "/", "a", "-", "b", ".", "m", "d">>, <<"d", "o", "c", "s", "/", "2", "0", "2", "4", "-", "0", "1", "-", "1", "5", "-", "A", "-", "B", ".", "m", "d">>, <<"d", "o", "c", "s", "/", "2", "0", "2", "4", "-", "0", "1", "-", "1", "5", "-", "a", "-", "b", ".", "m", "d">>, <<"d", "o", "c", "s", "/", "2", "0", "2", "4", "-", "0", "2", "-", "2", "0", "-", "A", "-", "B", ".", "m", "d">>}

\* any repository, on a case-sensitive or a case-insensitive file system,
\* committed or not, with few switches off
InitCase ==
  /\ \E ci \in BOOLEAN, tracked \in BOOLEAN : w \in WorkingCopies(CasePaths, ci, tracked)
  /\ opts \in {WithFlags(DefaultOptions, f) : f \in FewFlags}
  /\ Fresh

NextCase ==
  \/ PlanFirst
  \/ ApplyBegin
  \/ MoveDirect
  \/ MoveToTemp
  \/ MoveFromTemp
  \/ InsertFrontmatter
  \/ RewriteReferences

SpecCase == InitCase /\ [][NextCase]_vars

\* ------------------------------------------------------------------------
\* Plan and apply with a rename whose target is the source of another one
\* ------------------------------------------------------------------------

\* a root file and the dated doc that holds the path it moves to
ChainPaths == {<<"a", "-", "b", ".", "m", "d">>, <<"d", "o", "c", "s", "/", "2", "0", "2", "4", "-", "0", "1", "-", "1", "5", "-", "a", "-", "b", ".", "m", "d">>}

\* the dated doc is to lose its date prefix
ChainOptions == WithPathOptions(DefaultOptions, <<"d", "o", "c", "s", "/", "2", "0", "2", "4", "-", "0", "1", "-", "1", "5", "-", "a", "-", "b", ".", "m", "d">>, "none", FALSE, TRUE)

InitChain ==
  /\ \E tracked \in BOOLEAN :
       w \in {WorkingCopy(contentOf, FALSE, tracked) :
                contentOf \in UNION {NotesRepos(S) : S \in TreesOf(ChainPaths, FALSE)}}
  /\ opts \in {DefaultOptions, ChainOptions}
  /\ Fresh

NextChain ==
  \/ PlanFirst
  \/ ApplyBegin
  \/ MoveDirect
  \/ MoveToTemp
  \/ MoveFromTemp
  \/ InsertFrontmatter
  \/ RewriteReferences

SpecChain == InitChain /\ [][NextChain]_vars

\* ------------------------------------------------------------------------
\* The limiter under the scheduling of the event loop
\* ------------------------------------------------------------------------

\* The code of the caller runs to completion, every promise job that is due
\* runs, and the event loop hands over the close or error event of every
\* child process: every call that has started completes or fails.
LimiterFairness ==
  /\ WF_vars(Return)
  /\ SF_vars(ChildCloses)
  /\ WF_vars(ExecGitReturns)
  /\ WF_vars(LimiterReturns)
  /\ WF_vars(WaiterResumes)
  /\ WF_vars(RunReturns)
  /\ WF_vars(MethodReturns)
  /\ WF_vars(CallerResumes)

SpecLimiterFair == InitLimiter /\ [][NextLimiter]_vars /\ LimiterFairness

\* C11: for a git client created with concurrency limit N, under every
\* interleaving of new calls, wake-ups of waiters, completions and failures,
\* the number of git child processes in flight never exceeds N.
C11_AtMostMaxInFlight == pc = "git" => Cardinality(inFlight) <= max

\* pat occurs in s at position i
occursAt(s, pat, i) ==
  /\ i >= 1
  /\ i + Len(pat) - 1 <= Len(s)
  /\ SubSeq(s, i, i + Len(pat) - 1) = pat

\* the content, after the apply, of the file of the plan's i-th reference update
RewrittenContent(i) == readFile(w.files, w.ci, plan.references[i].path)

\* runMigrationPlan has applied the whole plan
Applied == pc = "applied" /\ plan.made /\ ~plan.failed

\* C12 as stated: after runMigrationPlan has applied a plan, no file with a
\* reference update contains an occurrence of the from path of a rename.
C12_Original ==
  Applied =>
    \A i \in 1..Len(plan.references) :
      \A j \in 1..Len(plan.renames) :
        indexOf(RewrittenContent(i), plan.renames[j].from, 1) = 0

\* C12, amended: after runMigrationPlan has applied a plan, in every file
\* with a reference update every occurrence of the from path of a rename
\* lies within an occurrence of the to path of a rename: what is left of an
\* old path is part of a new one.
C12_OldPathsOnlyInNewPaths ==
  Applied =>
    \A i \in 1..Len(plan.references) :
      \A j \in 1..Len(plan.renames) :
        \A at \in 1..Len(RewrittenContent(i)) :
          occursAt(RewrittenContent(i), plan.renames[j].from, at) =>
            \E k \in 1..Len(plan.renames) :
              \E start \in 1..at :
                /\ occursAt(RewrittenContent(i), plan.renames[k].to, start)
                /\ at + Len(plan.renames[j].from) <= start + Len(plan.renames[k].to)


\* a file moved from the repo root into the docs root was mentioned with ../
\* in front, and the applied plan has put the new path there
C12_Witness ==
  /\ Applied
  /\ \E i \in 1..Len(plan.references) :
       \E j \in 1..Len(plan.renames) :
         /\ indexOf(plan.renames[j].from, "/", 1) = 0
         /\ startsWith(plan.renames[j].to, <<"d", "o", "c", "s", "/">>)
         /\ indexOf(readFile(w0.files, w0.ci, plan.references[i].path),
                    <<".", ".", "/">> \o plan.renames[j].from, 1) # 0
         /\ indexOf(RewrittenContent(i), <<".", ".", "/">> \o plan.renames[j].to, 1) # 0

\* C13: a failing history lookup (git log exits with an error for a tracked
\* path) does not fail planMigration: the planner falls back to the
\* filesystem timestamp with the placeholder author and returns a plan.
C13_FailingLookupFallsBack ==
  (pc = "planned" /\ plan.made /\ FailingLogs # {}) =>
    /\ ~plan.failed
    /\ \A p \in FailingLogs :
         \A i \in 1..Len(plan.frontmatters) :
           plan.frontmatters[i].path = renamedPath(plan.renames, p) =>
             /\ plan.frontmatters[i].date = BirthDate
             /\ plan.frontmatters[i].author = UnknownAuthor

\* the paths listed in both forceDatePrefixPaths and forceUndatedPaths
ConflictingPaths == opts.forceDatePrefixPaths \cap opts.forceUndatedPaths

\* C14: if a path is listed in both forceDatePrefixPaths and
\* forceUndatedPaths, planMigration fails and returns no plan, whatever files
\* the repository contains, and no file has been changed when it fails.
C14_ConflictFails ==
  (pc = "planned" /\ plan.made /\ ConflictingPaths # {}) =>
    /\ plan.failed
    /\ w = w0

\* the candidates that are listed in forceUndatedPaths only
ForcedUndated ==
  {p \in Range(candidates(w, opts)) :
     p \in opts.forceUndatedPaths /\ p \notin opts.forceDatePrefixPaths}

\* C15: for every candidate listed in forceUndatedPaths and not in
\* forceDatePrefixPaths, in the repo root or in the docs root and whatever
\* the other options, the base name of the planned target carries no date
\* prefix.
C15_ForcedUndatedHasNoDate ==
  Planned =>
    \A p \in ForcedUndated :
      extractDatePrefix(basename(renamedPath(plan.renames, p))) = NULL

\* the docs under the docs root whose stem is exactly a date
DateOnlyDocs ==
  {p \in DOMAIN w.files :
     /\ startsWith(p, opts.docsRoot \o <<"/">>)
     /\ isMarkdownFile(p)
     /\ startsWithDate(splitMarkdownBaseName(basename(p)).stem)
     /\ Len(splitMarkdownBaseName(basename(p)).stem) = 10}

\* C16: a document under the docs root whose stem is exactly a date
\* (YYYY-MM-DD.md, no slug) is left in place: the plan computed with default
\* options contains no rename whose from is that path.
C16_DateOnlyDocStays ==
  (Planned /\ opts = DefaultOptions) =>
    \A p \in DateOnlyDocs : p \notin RenameSources

\* the move that applyRenames makes next throws
MoveFails ==
  /\ pc \in {"direct", "phase1", "phase2"}
  /\ ~move(w,
           IF pc = "phase2" THEN ap.temps[ap.i] ELSE plan.renames[ap.i].from,
           IF pc = "phase1" THEN ap.temps[ap.i] ELSE plan.renames[ap.i].to,
           plan.renames[ap.i].from \in plan.trackedSet).ok

\* C17: if a rename move fails during runMigrationPlan, the call rejects and
\* no later step runs: no further move, no frontmatter insertion and no
\* reference rewrite is performed after the failure.
C17_FailedMoveEndsApply ==
  [][(MoveFails \/ pc = "failed") => (pc' = "failed" /\ w' = w)]_vars

\* C17 happens: a move has failed, the to path of a rename is not there, and
\* frontmatter inserts of the plan have not been made
C17_Witness ==
  /\ pc = "failed"
  /\ plan.frontmatters # <<>>
  /\ \E j \in 1..Len(plan.renames) : ~pathExists(w.files, w.ci, plan.renames[j].to)
  /\ \A i \in 1..Len(plan.frontmatters) :
       LET content == readFile(w.files, w.ci, plan.frontmatters[i].path)
       IN content = NULL \/ ~hasFrontmatter(content)

FrontmatterPaths == {plan.frontmatters[i].path : i \in 1..Len(plan.frontmatters)}

ReferencePaths == {plan.references[i].path : i \in 1..Len(plan.references)}

\* the files of the repository that an ignore glob matches
IgnoredFiles == {p \in DOMAIN w.files : ignoreMatcher(opts.ignoreGlobs, p)}

\* C18 as stated: no action of a plan names a path that an ignore glob
\* matches, as the from of a rename, the path of a frontmatter insert or the
\* path of a reference update.
C18_Original ==
  Planned =>
    \A p \in RenameSources \cup FrontmatterPaths \cup ReferencePaths :
      ~ignoreMatcher(opts.ignoreGlobs, p)

\* C18, amended: no action of a plan concerns a file of the repository whose
\* path an ignore glob matches: such a file is never the from of a rename,
\* never the subject of a frontmatter insert and never the file of a
\* reference update.
C18_IgnoredFilesUntouched ==
  Planned =>
    \A p \in IgnoredFiles :
      p \notin RenameSources \cup FrontmatterPaths \cup ReferencePaths

\* C18 happens: a plan with actions for a repository with an ignored file
\* that would be renamed if it were not ignored
C18_Witness ==
  /\ Planned
  /\ plan.renames # <<>>
  /\ \E p \in IgnoredFiles :
       \E i \in 1..Len(planMigration(w, DefaultOptions).renames) :
         planMigration(w, DefaultOptions).renames[i].from = p

\* the candidates whose default case mode is capitalized: canonical names,
\* and all-caps names under the docs root
CapitalizedByDefault ==
  {p \in Range(candidates(w, opts)) : classifyDoc(p, opts.docsRoot).mode = "capitalized"}

\* C19: with includeCanonicalRenames off, every candidate whose default case
\* mode is capitalized keeps its path: the plan contains no rename for it,
\* whatever the other options and per-path overrides.
C19_CapitalizedStay ==
  (Planned /\ ~opts.includeCanonicalRenames) =>
    \A p \in CapitalizedByDefault : p \notin RenameSources

\* the content of the file of the frontmatter action after the step
ContentAfterInsert == readFile(w'.files, w'.ci, plan.frontmatters[ap.i].path)

\* the step of the frontmatter loop writes the file
InsertWrites == pc = "frontmatter" /\ w'.files # w.files

\* C20 as stated: after runMigrationPlan inserts frontmatter into a file, the
\* new content is the generated block followed by the complete original
\* content, byte for byte, as a suffix.
C20_Original ==
  [][InsertWrites =>
       /\ startsWith(ContentAfterInsert, frontmatterOf(ap.i))
       /\ endsWith(ContentAfterInsert, TargetContent)]_vars

\* C20, amended: the new content is the generated block, one or two line
\* feeds, and the original content without a byte order mark at its start;
\* nothing else of the original content is removed or reordered.
C20_PrependsOnly ==
  [][InsertWrites =>
       \E separator \in {<<"\n">>, <<"\n", "\n">>} :
         ContentAfterInsert = frontmatterOf(ap.i) \o separator \o stripBom(TargetContent)]_vars

\* C20 happens: frontmatter has been inserted into a file that began with a
\* byte order mark and had a body
C20_Witness ==
  /\ pc = "applied"
  /\ plan.frontmatters # <<>>
  /\ LET before == readFile(w0.files, w0.ci, plan.frontmatters[1].path)
         after == readFile(w.files, w.ci, plan.frontmatters[1].path)
     IN /\ before # NULL
        /\ Len(before) > 1
        /\ before[1] = BOM
        /\ after # before
        /\ endsWith(after, sliceFrom(before, 2))


\* a step of applyRenames that moves a file
Moves == pc \in {"direct", "phase1", "phase2"} /\ pc' # "failed"

\* the step has put the content that path from named at the path to
Carries(from, to) ==
  /\ pathExists(w'.files, w'.ci, to)
  /\ readFile(w'.files, w'.ci, to) = readFile(w.files, w.ci, from)

\* C21: applyRenames moves in two phases (every source to its temporary
\* name, then every temporary name to its target, all moves of the first
\* phase before any move of the second) exactly when the to of some rename
\* equals, ignoring case, the from of some rename; otherwise it applies each
\* rename directly, in plan order.
C21_TwoPhaseIffOverlap ==
  [][/\ (pc = "planned" /\ pc' \in {"direct", "phase1"}) =>
          (pc' = "phase1" <=> RenamesOverlap)
     /\ (pc = "planned" /\ pc' \in {"direct", "phase1"}) => ap'.i = 1
     /\ (Moves /\ pc = "direct") =>
          /\ Carries(plan.renames[ap.i].from, plan.renames[ap.i].to)
          /\ pc' = "direct" <=> ap.i < Len(plan.renames)
          /\ pc' = "direct" => ap'.i = ap.i + 1
     /\ (Moves /\ pc = "phase1") =>
          /\ Carries(plan.renames[ap.i].from, ap.temps[ap.i])
          /\ ap.temps[ap.i] \notin RenameTargets
          /\ pc' = "phase1" <=> ap.i < Len(plan.renames)
          /\ pc' = "phase1" => ap'.i = ap.i + 1
          /\ pc' # "phase1" => (pc' = "phase2" /\ ap'.i = 1)
     /\ (Moves /\ pc = "phase2") =>
          /\ Carries(ap.temps[ap.i], plan.renames[ap.i].to)
          /\ pc' = "phase2" <=> ap.i < Len(plan.renames)
          /\ pc' = "phase2" => ap'.i = ap.i + 1
          /\ pc' # "phase1"]_vars

\* C21 happens: a rename that only changes the case of a name has been
\* applied through its temporary name, next to a rename that overlaps with
\* nothing
C21_Witness ==
  /\ pc = "applied"
  /\ ap.temps # <<>>
  /\ Len(plan.renames) = 2
  /\ \E i \in 1..Len(plan.renames) :
       /\ plan.renames[i].to # plan.renames[i].from
       /\ toLowerCase(plan.renames[i].to) = toLowerCase(plan.renames[i].from)
  /\ \A i, j \in 1..Len(plan.renames) : plan.renames[i].to # plan.renames[j].from

\* the positions of runMigrationPlan inside applyRenames
MovePositions == {"direct", "phase1", "phase2"}

\* the paths of the files of the plan's repository after all renames
PostRenamePaths == {renamedPath(plan.renames, f) : f \in DOMAIN w0.files}

Classified == pc = "classified" /\ "location" \in DOMAIN clDoc

\* the stem of the name has a capital letter and no small letter
AllCapsStem ==
  LET stem == splitMarkdownBaseName(basename(clPath)).stem
  IN /\ \E i \in 1..Len(stem) : stem[i] \in UpperSet
     /\ \A i \in 1..Len(stem) : stem[i] \notin LowerSet

\* C23: for every Markdown path and docs root, classifyDoc computes
\* location = root when the path has no slash, docs when it starts with the
\* docs root and a slash, else other; mode = capitalized exactly when the
\* name has no date prefix and is canonical or (the location is docs and the
\* stem is all-caps), else lowercase; shouldDatePrefix exactly when the mode
\* is lowercase, the location is not other and there is no date prefix; so
\* a canonical or date-prefixed name never has shouldDatePrefix.
C23_Classification ==
  Classified =>
    LET hasSlash == \E i \in 1..Len(clPath) : clPath[i] = "/"
        dated == extractDatePrefix(basename(clPath)) # NULL
        canonical == getCanonicalBaseName(basename(clPath)) # NULL
    IN /\ clDoc.location = "root" <=> ~hasSlash
       /\ clDoc.location = "docs" <=>
            (hasSlash /\ startsWith(clPath, normalizeDocsRoot(clRoot) \o <<"/">>))
       /\ clDoc.location \in {"root", "docs", "other"}
       /\ clDoc.mode = "capitalized" <=>
            (~dated /\ (canonical \/ (clDoc.location = "docs" /\ AllCapsStem)))
       /\ clDoc.mode \in {"capitalized", "lowercase"}
       /\ clDoc.shouldDatePrefix <=>
            (clDoc.mode = "lowercase" /\ clDoc.location # "other" /\ ~dated)
       /\ (canonical \/ dated) => ~clDoc.shouldDatePrefix

\* C23 happens: an all-caps name that is not canonical has been classified
\* under a docs root that was written with a trailing slash
C23_Witness ==
  /\ Classified
  /\ clRoot = <<"d", "o", "c", "s", "/">>
  /\ clPath = <<"d", "o", "c", "s", "/", "N", "O", "T", "E", "S", ".", "m", "d">>
  /\ clDoc.location = "docs"
  /\ clDoc.mode = "capitalized"

\* the candidate gets a date prefix that its name did not have
FreshlyDated(p) ==
  /\ extractDatePrefix(basename(p)) = NULL
  /\ extractDatePrefix(basename(renamedPath(plan.renames, p))) # NULL

\* C24: within one planMigration call git.getCreationInfo runs at most once
\* per path, and only for candidates that receive a fresh date prefix or a
\* frontmatter insert; a candidate that needs neither triggers no lookup.
C24_LookupsOncePerNeed ==
  Planned =>
    /\ \A i, j \in 1..Len(plan.lookups) : i # j => plan.lookups[i] # plan.lookups[j]
    /\ \A i \in 1..Len(plan.lookups) :
         /\ plan.lookups[i] \in Range(candidates(w, opts))
         /\ \/ FreshlyDated(plan.lookups[i])
            \/ renamedPath(plan.renames, plan.lookups[i]) \in FrontmatterPaths

\* C24 happens: a plan with one lookup for a file that gets a date prefix and
\* a frontmatter insert, and no lookup for a candidate that needs neither
C24_Witness ==
  /\ Planned
  /\ Len(plan.lookups) = 1
  /\ FreshlyDated(plan.lookups[1])
  /\ renamedPath(plan.renames, plan.lookups[1]) \in FrontmatterPaths
  /\ \E p \in Range(candidates(w, opts)) : p # plan.lookups[1]

\* the Markdown files at the repo root whose name is neither canonical nor
\* date-prefixed nor all-lowercase: all-caps or mixed-case stems
OtherRootMarkdown ==
  {p \in DOMAIN w.files :
     /\ \A i \in 1..Len(p) : p[i] # "/"
     /\ isMarkdownFile(p)
     /\ getCanonicalBaseName(p) = NULL
     /\ extractDatePrefix(p) = NULL
     /\ \E i \in 1..Len(splitMarkdownBaseName(p).stem) :
          splitMarkdownBaseName(p).stem[i] \in UpperSet}

\* C25: root-level candidate discovery takes only the Markdown files at the
\* repo root whose name is canonical, date-prefixed or all-lowercase: a root
\* file whose stem is all-caps but not canonical, or mixed-case, is never
\* the from of a rename nor the path of a frontmatter insert, under any
\* option set.
C25_OtherRootFilesStay ==
  Planned =>
    /\ \A p \in OtherRootMarkdown :
         /\ p \notin Range(candidates(w, opts))
         /\ p \notin RenameSources
         /\ p \notin FrontmatterPaths
    /\ \A p \in Range(candidates(w, opts)) :
         (\A i \in 1..Len(p) : p[i] # "/") =>
           \/ getCanonicalBaseName(p) # NULL
           \/ extractDatePrefix(p) # NULL
           \/ isLowercaseDocBaseName(p)

\* C25 happens: a plan with a rename for a repository that has an all-caps
\* root file that is not canonical, with a forced date prefix on that file
C25_Witness ==
  /\ Planned
  /\ plan.renames # <<>>
  /\ <<"N", "O", "T", "E", "S", ".", "m", "d">> \in DOMAIN w.files
  /\ <<"N", "O", "T", "E", "S", ".", "m", "d">> \in opts.forceDatePrefixPaths

\* the renames before collision resolution, in discovery order: each source
\* with its preferred target
PreferredRenames == renamesOf(desiredTargets(w, opts, candidates(w, opts)))

\* the paths that rename k may not take: the files that stay in place and
\* the targets assigned to the renames before it
OccupiedFor(k) ==
  (DOMAIN w.files \ RenameSources) \cup {plan.renames[j].to : j \in 1..(k - 1)}

\* the path with the suffix -i before its extension
Suffixed(relPath, i) ==
  LET dot == lastIndexOf(relPath, ".")
  IN SubSeq(relPath, 1, dot - 1) \o <<"-">> \o decimal(i) \o sliceFrom(relPath, dot)

StayingPaths == DOMAIN w.files \ RenameSources

\* C27: no rename to of a plan is equal, ignoring case, to a different path
\* that stays in place, nor to the to of another rename: on a
\* case-insensitive file system applying the plan never makes two files
\* share one name and never overwrites a file, for every option set.
C27_TargetsDifferIgnoringCase ==
  Planned =>
    \A i \in 1..Len(plan.renames) :
      /\ \A q \in StayingPaths :
           q # plan.renames[i].to => toLowerCase(q) # toLowerCase(plan.renames[i].to)
      /\ \A j \in 1..Len(plan.renames) :
           i # j => toLowerCase(plan.renames[i].to) # toLowerCase(plan.renames[j].to)

\* the destination of the move that applyRenames executes next
Destination ==
  IF pc = "phase1" THEN ap.temps[ap.i] ELSE plan.renames[ap.i].to

\* the files outside the rename set, with their content
FilesOutside(wc) ==
  {<<p, wc.files[p].content>> : p \in DOMAIN wc.files \ RenameSources}

\* C28: at every move step that applyRenames executes for an unfiltered plan
\* on a repository unchanged since planning, the destination path does not
\* exist at that moment (direct mode, phase 1 to temporary names, phase 2 to
\* targets); hence no file outside the rename set is removed, overwritten or
\* moved.
C28_DestinationIsFree ==
  /\ pc \in MovePositions => ~pathExists(w.files, w.ci, Destination)
  /\ pc \in MovePositions \cup {"applied", "failed", "frontmatter", "references"} =>
       \A p \in DOMAIN w0.files \ RenameSources : p \in DOMAIN w.files

\* the plan renames a to b and b to c
Chained ==
  \E i, j \in 1..Len(plan.renames) :
    /\ i # j
    /\ plan.renames[i].to = plan.renames[j].from
    /\ plan.renames[j].to # plan.renames[i].from

\* a line that mentions a path, with the path replaced by where the plan
\* moves it
MentionAfterRenames(line) ==
  LET prefix == IF startsWith(line, <<".", ".", "/">>) THEN <<".", ".", "/">>
                ELSE IF startsWith(line, <<".", "/">>) THEN <<".", "/">>
                ELSE <<>>
  IN prefix \o renamedPath(plan.renames, sliceFrom(line, Len(prefix) + 1))

\* a text of mentions, one per line, with every mention replaced once
RECURSIVE TextAfterRenames(_)
TextAfterRenames(text) ==
  IF text = <<>> THEN <<>>
  ELSE LET end == indexOf(text, <<"\n">>, 1)
       IN MentionAfterRenames(SubSeq(text, 1, end - 1)) \o <<"\n">>
          \o TextAfterRenames(sliceFrom(text, end + 1))

\* C29: reference rewriting is single-pass and never cascades: with chained
\* renames a -> b and b -> c in one plan, an occurrence of a in a file
\* becomes b and an occurrence of b becomes c, and text produced by a
\* replacement is never matched and rewritten again: no occurrence of a
\* ends as c.
C29_NoCascade ==
  (Applied /\ Chained) =>
    \A i \in 1..Len(plan.references) :
      plan.references[i].path = NotesPath =>
        RewrittenContent(i) = TextAfterRenames(readFile(w0.files, w0.ci, NotesPath))

\* C29 happens: the file mentioned a and b of a chain, and after the apply
\* it mentions b where a was and c where b was
C29_Witness ==
  /\ Applied
  /\ Chained
  /\ readFile(w0.files, w0.ci, NotesPath) = <<".", "/", "a", "-", "b", ".", "m", "d", "\n", "d", "o", "c", "s", "/", "2", "0", "2", "4", "-", "0", "1", "-", "1", "5", "-", "a", "-", "b", ".", "m", "d", "\n">>
  /\ readFile(w.files, w.ci, NotesPath) = <<".", "/", "d", "o", "c", "s", "/", "2", "0", "2", "4", "-", "0", "1", "-", "1", "5", "-", "a", "-", "b", ".", "m", "d", "\n", "d", "o", "c", "s", "/", "a", "-", "b", ".", "m", "d", "\n">>

\* the limiter has called fn for the call: the child process runs, or the
\* call has completed or failed
Started(id) == calls[id] \in {"spawned", "settled", "done"}

\* C30: the limiter loses no wake-up: if every started call eventually
\* completes or fails, then every call submitted to the limiter eventually
\* starts; a failing call releases its slot like a successful one.
C30_EveryCallStarts ==
  \A id \in CallIds : (calls[id] \in {"waiting", "woken"}) ~> Started(id)

\* C30 happens: a call has left the limiter, by return or by throw, and has
\* woken the first waiter, which is due to start while another call waits
C30_Witness ==
  /\ \E id \in CallIds : calls[id] = "woken"
  /\ \E id \in CallIds : calls[id] = "waiting"
  /\ jobs # <<>>
  /\ Head(jobs).kind = "waiter"
====
